---- MODULE Spec2Model ----
(***************************************************************************)
(* A model of the collection -> filtering -> classification -> rendering   *)
(* pipeline of ai-insight-report (src/scripts).                            *)
(*                                                                         *)
(* Conventions                                                             *)
(*  - A datetime is an integer number of minutes; a naive datetime is its  *)
(*    wall-clock value, a timezone-aware one a wall-clock value and a UTC  *)
(*    offset.                                                              *)
(*  - A `published` string is described by what dateutil makes of it:      *)
(*    kind "empty", kind "malformed", or kind "date" with the wall clock,  *)
(*    whether the string names a timezone, and its UTC offset; kind        *)
(*    "absent" is a page of the column that carries no date element.       *)
(*  - TLA+ strings are ASCII, so Korean text of the source is romanised;   *)
(*    the original is given in the comment next to it.                     *)
(***************************************************************************)
EXTENDS Integers, Sequences, FiniteSets, TLC

VARIABLES
    pc,              \* position of the run that the specification follows
    now,             \* datetime.now(), minutes
    reference_date,  \* the reference_date argument: None or a naive datetime
    days_lookback,   \* blog_config['days_lookback']
    rss_posts,       \* NaverBlogCollector: the entries of the RSS feed
    recent_posts,    \* NaverBlogCollector: result of _filter_recent_posts
    post,            \* PostAnalyzer: the post handed to the analyzer
    category,        \* PostAnalyzer: result of _classify_category
    summary,         \* PostAnalyzer: result of _create_simple_summary
    categorized_posts,  \* the dict handed to ReportGenerator.generate_report
    render_runs,     \* how often generate_report is called on it
    reports,         \* the outcome of every generate_report call so far
    output_dir,      \* the files of report_config['output_dir']
    web_reports_dir, \* the files of the web viewer's reports directory
    cache_file,      \* AjunewsCollector: feeds/ajunews_url_cache.json
    url_list,        \* AjunewsCollector: result of _load_or_generate_url_list
    data_sources_config,  \* config['data_sources']
    collectors,      \* MultiSourceCollector.collectors, in insertion order
    web,             \* what the sites answer: the pages behind the URLs
    cursor,          \* collect_all_sources: index of the next collector
    collected,       \* how every collect_posts call so far ended
    all_posts,       \* collect_all_sources: all_posts
    source_stats,    \* collect_all_sources: source_stats, in insertion order
    feeds_dir,       \* the artifacts written to feeds_dir, in order
    run_raised,      \* whether collect_all_sources ended with an exception
    main_posts,      \* main: `posts`, the posts handed to analyze_posts
    analyzed_posts   \* main: the outcome of analyze_posts

clockVars == <<now, reference_date>>
filterVars == <<days_lookback, rss_posts, recent_posts>>
analyzerVars == <<post, category, summary>>
reportVars ==
    <<categorized_posts, render_runs, reports, output_dir, web_reports_dir>>

cacheVars == <<cache_file, url_list>>
collectVars ==
    <<data_sources_config, collectors, web, cursor, collected, all_posts,
      source_stats, feeds_dir, run_raised>>

pipelineVars == <<main_posts, analyzed_posts>>

vars ==
    <<pc, clockVars, filterVars, analyzerVars, reportVars, cacheVars,
      collectVars, pipelineVars>>

\* The parts of the state a specification does not exercise rest at these
\* values.
AnalyzerIdle ==
    /\ post = [title |-> <<>>, content |-> <<>>]
    /\ category = ""
    /\ summary = <<>>

ReportIdle ==
    /\ categorized_posts = <<>>
    /\ render_runs = 0
    /\ reports = <<>>
    /\ output_dir = <<>>
    /\ web_reports_dir = <<>>

FilterIdle ==
    /\ days_lookback = 0
    /\ rss_posts = <<>>
    /\ recent_posts = <<>>

CacheIdle ==
    /\ cache_file = [exists |-> FALSE]
    /\ url_list = <<>>

CollectIdle ==
    /\ data_sources_config = <<>>
    /\ collectors = <<>>
    /\ web = <<>>
    /\ cursor = 0
    /\ collected = <<>>
    /\ all_posts = <<>>
    /\ source_stats = <<>>
    /\ feeds_dir = <<>>
    /\ run_raised = FALSE

PipelineIdle ==
    /\ main_posts = <<>>
    /\ analyzed_posts = [raised |-> FALSE, posts |-> <<>>]

----------------------------------------------------------------------------
(* Values shared by every part of the model *)

\* reference_date=None, and a datetime given by the caller
None == [given |-> FALSE, wall |-> 0]
Datetime(w) == [given |-> TRUE, wall |-> w]

\* timedelta(days=1), in minutes
DayMinutes == 1440

\* Minute 0 is 2026-01-01 00:00; a year has 365 days.
EpochYear == 2026
YearMinutes == 365 * DayMinutes

\* dt.year
YearOf(wall) == EpochYear + (wall \div YearMinutes)

\* the moment the modelled runs start at (one minute before midnight), and
\* the reference date a caller gives
NowT == 30 * DayMinutes - 1
RefT == 20 * DayMinutes + 1439

\* SeqsUpTo(S, n): the sequences over S of length at most n
SeqsUpTo(S, n) == UNION {[1..k -> S] : k \in 0..n}

EmptyPublished == [kind |-> "empty", wall |-> 0, aware |-> FALSE, offset |-> 0]
MalformedPublished ==
    [kind |-> "malformed", wall |-> 0, aware |-> FALSE, offset |-> 0]
NaivePublished(w) == [kind |-> "date", wall |-> w, aware |-> FALSE, offset |-> 0]
AwarePublished(w, off) ==
    [kind |-> "date", wall |-> w, aware |-> TRUE, offset |-> off]

\* +09:00, the offset of the feeds the collectors read
KstOffset == 540

\* dateutil.parser.parse(s): the datetime the string holds, or an exception
date_parser_parse(s) ==
    IF s.kind = "date"
    THEN [raised |-> FALSE, wall |-> s.wall, aware |-> s.aware,
          offset |-> s.offset]
    ELSE [raised |-> TRUE, wall |-> 0, aware |-> FALSE, offset |-> 0]

----------------------------------------------------------------------------
(* Text.  A Python str is a sequence of runs [ch |-> c, n |-> k]: k copies  *)
(* of the character c.  A character is a one-character string; a Hangul    *)
(* syllable is written as its romanisation followed by "_".                *)

Run(c, k) == [ch |-> c, n |-> k]

\* the str whose characters are the elements of chars
RECURSIVE Str(_)
Str(chars) ==
    IF chars = <<>> THEN <<>> ELSE <<Run(Head(chars), 1)>> \o Str(Tail(chars))

RECURSIVE Repeat(_, _)
Repeat(c, k) == IF k <= 0 THEN <<>> ELSE <<c>> \o Repeat(c, k - 1)

\* the characters of a str, one element each
RECURSIVE Expand(_)
Expand(text) ==
    IF text = <<>> THEN <<>>
    ELSE Repeat(text[1].ch, text[1].n) \o Expand(Tail(text))

\* len(text)
RECURSIVE TextLen(_)
TextLen(text) ==
    IF text = <<>> THEN 0 ELSE text[1].n + TextLen(Tail(text))

\* the same str with equal neighbouring runs merged and empty runs dropped:
\* two values denote the same str iff their canonical forms are equal
RECURSIVE Canon(_)
Canon(text) ==
    IF text = <<>> THEN <<>>
    ELSE IF text[1].n <= 0 THEN Canon(Tail(text))
    ELSE LET rest == Canon(Tail(text)) IN
         IF rest # <<>> /\ rest[1].ch = text[1].ch
         THEN <<Run(text[1].ch, text[1].n + rest[1].n)>> \o Tail(rest)
         ELSE <<text[1]>> \o rest

\* a + b
Concat(a, b) == Canon(a \o b)

\* None where a str is expected
NoneText == <<Run("None", 1)>>

UpperCase ==
    <<"A", "B", "C", "D", "E", "F", "G", "H", "I", "J", "K", "L", "M", "N", "O",
      "P", "Q", "R", "S", "T", "U", "V", "W", "X", "Y", "Z">>
LowerCase ==
    <<"a", "b", "c", "d", "e", "f", "g", "h", "i", "j", "k", "l", "m", "n", "o",
      "p", "q", "r", "s", "t", "u", "v", "w", "x", "y", "z">>

LowerChar(c) ==
    IF \E i \in 1..Len(UpperCase) : UpperCase[i] = c
    THEN LowerCase[CHOOSE i \in 1..Len(UpperCase) : UpperCase[i] = c]
    ELSE c

\* chars.lower(), on a sequence of characters
RECURSIVE Lower(_)
Lower(chars) ==
    IF chars = <<>> THEN <<>>
    ELSE <<LowerChar(Head(chars))>> \o Lower(Tail(chars))

\* needle in hay, on sequences of characters
Contains(hay, needle) ==
    \E i \in 0..(Len(hay) - Len(needle)) :
        \A j \in 1..Len(needle) : hay[i + j] = needle[j]

\* a Python dict with one more key
SetKey(d, k, v) == [q \in DOMAIN d \cup {k} |-> IF q = k THEN v ELSE d[q]]

----------------------------------------------------------------------------
(* NaverBlogCollector._filter_recent_posts (src/scripts/collector.py)      *)

\* base_date = reference_date if reference_date else datetime.now()
BaseDate(ref, t) == IF ref.given THEN ref.wall ELSE t

\* cutoff_date = base_date - timedelta(days=days_lookback)
CutoffDate(ref, t, lookback) == BaseDate(ref, t) - lookback * DayMinutes

\* The body of the loop for one post: TRUE when the post is appended.
\*   - an empty published string skips the whole `if`, nothing is appended;
\*   - a parse error is caught and the post is appended;
\*   - otherwise tzinfo is dropped (replace(tzinfo=None) keeps the wall clock)
\*     and the post is appended when cutoff_date <= post_date <= base_date.
FilterKeeps(p, ref, t, lookback) ==
    IF p.published.kind = "empty" THEN FALSE
    ELSE LET parsed == date_parser_parse(p.published) IN
         IF parsed.raised THEN TRUE
         ELSE /\ CutoffDate(ref, t, lookback) <= parsed.wall
              /\ parsed.wall <= BaseDate(ref, t)

_filter_recent_posts(posts, ref, t, lookback) ==
    SelectSeq(posts, LAMBDA p : FilterKeeps(p, ref, t, lookback))

----------------------------------------------------------------------------
(* Specification SpecFilter: _filter_recent_posts on every input within    *)
(* the bounds.                                                             *)

MaxFeed == 3

LookbackChoices == {0, 1, 7}

\* published values around both ends of the window [cutoff, base]
PublishedChoices(base, lookback) ==
    {EmptyPublished, MalformedPublished} \cup
    LET walls == {base - lookback * DayMinutes - 1,
                  base - lookback * DayMinutes, base - 1, base, base + 1}
    IN  {NaivePublished(w) : w \in walls} \cup
        {AwarePublished(w, KstOffset) : w \in walls}

\* an RSS entry as _fetch_rss_feed builds it; the link tells entries apart
RssEntry(i, pub) ==
    [title |-> Str(<<"t">>), link |-> i, published |-> pub,
     summary |-> Str(<<"s">>)]

FeedChoices(base, lookback) ==
    {[i \in 1..Len(pubs) |-> RssEntry(i, pubs[i])] :
        pubs \in SeqsUpTo(PublishedChoices(base, lookback), MaxFeed)}

InitFilter ==
    /\ pc = "filter"
    /\ now = NowT
    /\ reference_date \in {None, Datetime(RefT)}
    /\ days_lookback \in LookbackChoices
    /\ rss_posts \in FeedChoices(BaseDate(reference_date, now), days_lookback)
    /\ recent_posts = <<>>
    /\ AnalyzerIdle
    /\ ReportIdle
    /\ CacheIdle
    /\ CollectIdle
    /\ PipelineIdle

FilterRecent ==
    /\ pc = "filter"
    /\ recent_posts' = _filter_recent_posts(rss_posts, reference_date, now,
                                            days_lookback)
    /\ pc' = "filtered"
    /\ UNCHANGED <<now, reference_date, days_lookback, rss_posts>>
    /\ UNCHANGED <<analyzerVars, reportVars, cacheVars, collectVars, pipelineVars>>

NextFilter == FilterRecent

SpecFilter == InitFilter /\ [][NextFilter]_vars

\* is_subsequence: sub is seq with some elements left out, order kept
RECURSIVE IsSubSeq(_, _)
IsSubSeq(sub, seq) ==
    IF sub = <<>> THEN TRUE
    ELSE IF seq = <<>> THEN FALSE
    ELSE IF Head(sub) = Head(seq) THEN IsSubSeq(Tail(sub), Tail(seq))
    ELSE IsSubSeq(sub, Tail(seq))

InSeq(x, seq) == \E i \in 1..Len(seq) : seq[i] = x

\* the window test of the claim, on the naive wall clock of the post
InWindow(p, ref, t, lookback) ==
    /\ p.published.kind = "date"
    /\ BaseDate(ref, t) - lookback * DayMinutes <= p.published.wall
    /\ p.published.wall <= BaseDate(ref, t)

Unparseable(p) == p.published.kind # "date"

\* C1: the filter keeps a post iff cutoff <= published <= reference or its
\* published value yields no parseable date (an empty string included), and
\* kept posts stay in input order.
C1_FilterIffWindowOrUnparseable ==
    pc = "filtered" =>
        /\ IsSubSeq(recent_posts, rss_posts)
        /\ \A i \in 1..Len(rss_posts) :
              InSeq(rss_posts[i], recent_posts) <=>
                  \/ InWindow(rss_posts[i], reference_date, now, days_lookback)
                  \/ Unparseable(rss_posts[i])

----------------------------------------------------------------------------
(* PostAnalyzer (src/scripts/analyzer.py): keyword classification          *)

AI_TECH == "AI gi_sul_"                  \* 'AI 기술'
SCIENCE == "gwa_hag_ gi_sul_"            \* '과학 기술'
INDUSTRY == "san_eob_ dong_hyang_"       \* '산업 동향'
RESEARCH == "yeon_gu_ gae_bal_"          \* '연구 개발'
POLICY == "jeong_chaeg_ mich_ gyu_je_"   \* '정책 및 규제'
GITA == "gi_ta_"                         \* '기타'

\* AI 기술: AI, 인공지능, 머신러닝, 딥러닝, LLM, GPT, ChatGPT, 생성형, 신경망, 학습, 알고리즘, 데이터,
\*   모델, transformer, neural, machine learning, deep learning, 언어모델, AGI,
\*   자연어처리, NLP, 컴퓨터비전, CV
Keywords_AI ==
    << <<"A", "I">>, <<"in_", "gong_", "ji_", "neung_">>,
       <<"meo_", "sin_", "reo_", "ning_">>, <<"dib_", "reo_", "ning_">>,
       <<"L", "L", "M">>, <<"G", "P", "T">>,
       <<"C", "h", "a", "t", "G", "P", "T">>,
       <<"saeng_", "seong_", "hyeong_">>, <<"sin_", "gyeong_", "mang_">>,
       <<"hag_", "seub_">>, <<"al_", "go_", "ri_", "jeum_">>,
       <<"de_", "i_", "teo_">>, <<"mo_", "del_">>,
       <<"t", "r", "a", "n", "s", "f", "o", "r", "m", "e", "r">>,
       <<"n", "e", "u", "r", "a", "l">>,
       <<"m", "a", "c", "h", "i", "n", "e", " ", "l", "e", "a", "r", "n", "i", "n", "g">>,
       <<"d", "e", "e", "p", " ", "l", "e", "a", "r", "n", "i", "n", "g">>,
       <<"eon_", "eo_", "mo_", "del_">>, <<"A", "G", "I">>,
       <<"ja_", "yeon_", "eo_", "cheo_", "ri_">>, <<"N", "L", "P">>,
       <<"keom_", "pyu_", "teo_", "bi_", "jeon_">>, <<"C", "V">> >>

\* 과학 기술: 과학, 물리, 화학, 생물, 우주, 천문, 양자, 나노, 신소재, 바이오, 유전, DNA, RNA, 단백질, 입자,
\*   분자, 원자, 실험, 연구소, 발견, 의학, 치료, 질병, 백신, 암, 세포
Keywords_Science ==
    << <<"gwa_", "hag_">>, <<"mul_", "ri_">>, <<"hwa_", "hag_">>,
       <<"saeng_", "mul_">>, <<"u_", "ju_">>, <<"cheon_", "mun_">>,
       <<"yang_", "ja_">>, <<"na_", "no_">>, <<"sin_", "so_", "jae_">>,
       <<"ba_", "i_", "o_">>, <<"yu_", "jeon_">>, <<"D", "N", "A">>,
       <<"R", "N", "A">>, <<"dan_", "baeg_", "jil_">>, <<"ib_", "ja_">>,
       <<"bun_", "ja_">>, <<"won_", "ja_">>, <<"sil_", "heom_">>,
       <<"yeon_", "gu_", "so_">>, <<"bal_", "gyeon_">>, <<"ui_", "hag_">>,
       <<"chi_", "ryo_">>, <<"jil_", "byeong_">>, <<"baeg_", "sin_">>,
       <<"am_">>, <<"se_", "po_">> >>

\* 산업 동향: 기업, 시장, 투자, 매출, 수익, 주가, 상장, IPO, M&A, 인수, 합병, 스타트업, 벤처, 산업, 업계,
\*   비즈니스, 경영, 전략, CEO, 제품, 출시, 서비스, 플랫폼
Keywords_Industry ==
    << <<"gi_", "eob_">>, <<"si_", "jang_">>, <<"tu_", "ja_">>,
       <<"mae_", "chul_">>, <<"su_", "ig_">>, <<"ju_", "ga_">>,
       <<"sang_", "jang_">>, <<"I", "P", "O">>, <<"M", "&", "A">>,
       <<"in_", "su_">>, <<"hab_", "byeong_">>,
       <<"seu_", "ta_", "teu_", "eob_">>, <<"ben_", "cheo_">>,
       <<"san_", "eob_">>, <<"eob_", "gye_">>,
       <<"bi_", "jeu_", "ni_", "seu_">>, <<"gyeong_", "yeong_">>,
       <<"jeon_", "ryag_">>, <<"C", "E", "O">>, <<"je_", "pum_">>,
       <<"chul_", "si_">>, <<"seo_", "bi_", "seu_">>,
       <<"peul_", "raes_", "pom_">> >>

\* 연구 개발: 연구, 개발, 논문, 저널, 학회, 발표, 특허, 실험, 테스트, 프로토타입, R&D, 연구원, 박사, 대학, 연구소,
\*   랩, laboratory, 혁신, 기술개발
Keywords_Research ==
    << <<"yeon_", "gu_">>, <<"gae_", "bal_">>, <<"non_", "mun_">>,
       <<"jeo_", "neol_">>, <<"hag_", "hoe_">>, <<"bal_", "pyo_">>,
       <<"teug_", "heo_">>, <<"sil_", "heom_">>, <<"te_", "seu_", "teu_">>,
       <<"peu_", "ro_", "to_", "ta_", "ib_">>, <<"R", "&", "D">>,
       <<"yeon_", "gu_", "won_">>, <<"bag_", "sa_">>, <<"dae_", "hag_">>,
       <<"yeon_", "gu_", "so_">>, <<"raeb_">>,
       <<"l", "a", "b", "o", "r", "a", "t", "o", "r", "y">>,
       <<"hyeog_", "sin_">>, <<"gi_", "sul_", "gae_", "bal_">> >>

\* 정책 및 규제: 정책, 규제, 법, 법률, 정부, 국회, 의회, 가이드라인, 지침, 규정, 제도, 법안, 개정, 허가, 승인,
\*   인증, 표준, 안전, 보안
Keywords_Policy ==
    << <<"jeong_", "chaeg_">>, <<"gyu_", "je_">>, <<"beob_">>,
       <<"beob_", "ryul_">>, <<"jeong_", "bu_">>, <<"gug_", "hoe_">>,
       <<"ui_", "hoe_">>, <<"ga_", "i_", "deu_", "ra_", "in_">>,
       <<"ji_", "chim_">>, <<"gyu_", "jeong_">>, <<"je_", "do_">>,
       <<"beob_", "an_">>, <<"gae_", "jeong_">>, <<"heo_", "ga_">>,
       <<"seung_", "in_">>, <<"in_", "jeung_">>, <<"pyo_", "jun_">>,
       <<"an_", "jeon_">>, <<"bo_", "an_">> >>

\* self.category_keywords, in the insertion order of the dict literal
category_keywords ==
    << [category |-> AI_TECH, keywords |-> Keywords_AI],
       [category |-> SCIENCE, keywords |-> Keywords_Science],
       [category |-> INDUSTRY, keywords |-> Keywords_Industry],
       [category |-> RESEARCH, keywords |-> Keywords_Research],
       [category |-> POLICY, keywords |-> Keywords_Policy] >>

\* the inner loop: +2 for every keyword found in the title, +1 for every
\* keyword found in the content, both compared in lower case
\* keyword.lower(), for every keyword of a list
RECURSIVE LowerAll(_)
LowerAll(keywords) ==
    IF keywords = <<>> THEN <<>>
    ELSE <<Lower(Head(keywords))>> \o LowerAll(Tail(keywords))

LowerKeywords ==
    << LowerAll(Keywords_AI), LowerAll(Keywords_Science),
       LowerAll(Keywords_Industry), LowerAll(Keywords_Research),
       LowerAll(Keywords_Policy) >>

\* KeywordScore with a title match weighted like a content match
KeywordScore_TitleWeightOne(i, title, content) ==
    LET kws == LowerKeywords[i] IN
    Cardinality({k \in 1..Len(kws) : Contains(title, kws[k])})
    + Cardinality({k \in 1..Len(kws) : Contains(content, kws[k])})

\* the inner loop, for the i-th category: +2 for every keyword found in the
\* title, +1 for every keyword found in the content, both in lower case
KeywordScore(i, title, content) ==
    LET kws == LowerKeywords[i] IN
    2 * Cardinality({k \in 1..Len(kws) : Contains(title, kws[k])})
    + Cardinality({k \in 1..Len(kws) : Contains(content, kws[k])})

\* the outer loop from the i-th category on: the scores in dict order
RECURSIVE ScoresFrom(_, _, _)
ScoresFrom(i, title, content) ==
    IF i > Len(category_keywords) THEN <<>>
    ELSE <<KeywordScore(i, title, content)>> \o ScoresFrom(i + 1, title, content)

\* scores[category], by position in category_keywords
Scores(p) == ScoresFrom(1, Lower(Expand(p.title)), Lower(Expand(p.content)))

MaxScore(scores) ==
    CHOOSE m \in {scores[i] : i \in DOMAIN scores} :
        \A i \in DOMAIN scores : scores[i] <= m

\* FirstMaxIndex taking the last key with the maximum score
FirstMaxIndex_Last(scores) ==
    CHOOSE i \in DOMAIN scores :
        /\ scores[i] = MaxScore(scores)
        /\ \A j \in DOMAIN scores : scores[j] = MaxScore(scores) => j <= i

\* max(scores, key=scores.get): the first key, in the dict's order, whose
\* score is the maximum
FirstMaxIndex(scores) ==
    CHOOSE i \in DOMAIN scores :
        /\ scores[i] = MaxScore(scores)
        /\ \A j \in DOMAIN scores : scores[j] = MaxScore(scores) => i <= j

\* post['title'] + ' ' + post['content'] and the .lower() calls raise: a
\* missing key is a KeyError, a None title or content a TypeError
ClassifyRaises(p) ==
    \/ ~({"title", "content"} \subseteq DOMAIN p)
    \/ p.title = NoneText
    \/ p.content = NoneText

\* _classify_category without its else branch: no match falls off the end
\* of the function, which returns None
_classify_category_NoDefault(p) ==
    LET scores == Scores(p) IN
    IF MaxScore(scores) > 0
    THEN category_keywords[FirstMaxIndex(scores)].category
    ELSE "None"

_classify_category(p) ==
    LET scores == Scores(p) IN
    IF MaxScore(scores) > 0
    THEN category_keywords[FirstMaxIndex(scores)].category
    ELSE GITA

----------------------------------------------------------------------------
(* PostAnalyzer._create_simple_summary (src/scripts/analyzer.py)           *)

\* [.!?] and \s of the pattern r'[.!?]\s+'; str.strip() strips the same
\* whitespace
Terminals == {".", "!", "?"}
Whitespace == {" ", "\n", "\t"}

\* len(s.strip()) > 10
MinSentenceLen == 10
\* content[:200]
TruncateLen == 200
\* total_length + len(sentence) > 300
MaxSummaryLen == 300
\* sentences[:5]
MaxScanned == 5
\* len(summary_sentences) >= 2
EnoughSentences == 2

\* "내용을 확인할 수 없습니다."
NoContentMessage ==
    Str(<<"nae_", "yong_", "eul_", " ", "hwag_", "in_", "hal_", " ", "su_", " ",
          "eobs_", "seub_", "ni_", "da_", ".">>)

\* text.lstrip()
RECURSIVE LStrip(_)
LStrip(text) ==
    IF text # <<>> /\ text[1].ch \in Whitespace THEN LStrip(Tail(text)) ELSE text

\* text.rstrip()
RECURSIVE RStrip(_)
RStrip(text) ==
    IF text # <<>> /\ text[Len(text)].ch \in Whitespace
    THEN RStrip(SubSeq(text, 1, Len(text) - 1))
    ELSE text

\* text.strip()
Strip(text) == RStrip(LStrip(text))

\* text[:k]
RECURSIVE Take(_, _)
Take(text, k) ==
    IF text = <<>> \/ k <= 0 THEN <<>>
    ELSE IF text[1].n >= k THEN <<Run(text[1].ch, k)>>
    ELSE <<text[1]>> \o Take(Tail(text), k - text[1].n)

\* re.split(r'[.!?]\s+', text), text in canonical form, piece being the
\* characters read since the last separator.  A separator is one terminal
\* character directly followed by whitespace, with all the whitespace that
\* follows: of a run of terminals only the last one belongs to it.
RECURSIVE SplitFrom(_, _)
SplitFrom(text, piece) ==
    IF text = <<>> THEN <<piece>>
    ELSE IF /\ text[1].ch \in Terminals
            /\ Len(text) >= 2
            /\ text[2].ch \in Whitespace
    THEN <<Canon(piece \o <<Run(text[1].ch, text[1].n - 1)>>)>>
         \o SplitFrom(LStrip(Tail(text)), <<>>)
    ELSE SplitFrom(Tail(text), piece \o <<text[1]>>)

re_split(text) == SplitFrom(Canon(text), <<>>)

\* [s.strip() for s in sentences if len(s.strip()) > 10]
RECURSIVE StripAndFilter(_)
StripAndFilter(pieces) ==
    IF pieces = <<>> THEN <<>>
    ELSE LET s == Strip(Head(pieces)) IN
         IF TextLen(s) > MinSentenceLen
         THEN <<s>> \o StripAndFilter(Tail(pieces))
         ELSE StripAndFilter(Tail(pieces))

Sentences(content) == StripAndFilter(re_split(content))

\* Accumulate stopping as soon as the running total reaches 300
RECURSIVE Accumulate_StopAtBudget(_, _, _, _)
Accumulate_StopAtBudget(sentences, i, summary_sentences, total_length) ==
    IF i > Len(sentences) \/ i > MaxScanned THEN summary_sentences
    ELSE IF total_length + TextLen(sentences[i]) >= MaxSummaryLen
    THEN summary_sentences
    ELSE LET taken == Append(summary_sentences, sentences[i]) IN
         IF Len(taken) >= EnoughSentences THEN taken
         ELSE Accumulate_StopAtBudget(sentences, i + 1, taken,
                                      total_length + TextLen(sentences[i]))

\* the for loop over sentences[:5], from the i-th sentence on
RECURSIVE Accumulate(_, _, _, _)
Accumulate(sentences, i, summary_sentences, total_length) ==
    IF i > Len(sentences) \/ i > MaxScanned THEN summary_sentences
    ELSE IF total_length + TextLen(sentences[i]) > MaxSummaryLen
    THEN summary_sentences
    ELSE LET taken == Append(summary_sentences, sentences[i]) IN
         IF Len(taken) >= EnoughSentences THEN taken
         ELSE Accumulate(sentences, i + 1, taken,
                         total_length + TextLen(sentences[i]))

\* '. '.join(summary_sentences)
RECURSIVE JoinSentences(_)
JoinSentences(ss) ==
    IF ss = <<>> THEN <<>>
    ELSE IF Len(ss) = 1 THEN ss[1]
    ELSE ss[1] \o Str(<<".", " ">>) \o JoinSentences(Tail(ss))

\* content[:200].strip() + '...'
Truncated(content) ==
    Canon(Strip(Take(Canon(content), TruncateLen)) \o Str(<<".", ".", ".">>))

\* _create_simple_summary without its first test, `if not content`
_create_simple_summary_NoEmptyTest(content) ==
    LET sentences == Sentences(content) IN
    IF sentences = <<>> THEN Truncated(content)
    ELSE LET summary_sentences == Accumulate(sentences, 1, <<>>, 0) IN
         IF summary_sentences # <<>>
         THEN Canon(JoinSentences(summary_sentences) \o Str(<<".">>))
         ELSE Truncated(content)

_create_simple_summary(content) ==
    IF content = NoneText \/ Canon(content) = <<>> THEN NoContentMessage
    ELSE LET sentences == Sentences(content) IN
         IF sentences = <<>> THEN Truncated(content)
         ELSE LET summary_sentences == Accumulate(sentences, 1, <<>>, 0) IN
              IF summary_sentences # <<>>
              THEN Canon(JoinSentences(summary_sentences) \o Str(<<".">>))
              ELSE Truncated(content)

----------------------------------------------------------------------------
(* Specification SpecClassify: _classify_category on every title and       *)
(* content built from a vocabulary of keyword-bearing words.               *)

MaxTitleWords == 1
MaxContentWords == 2

Vocabulary ==
    { <<"A", "i">>,               \* matches 'AI' of AI 기술 in lower case
      <<"yeon_", "gu_", "so_">>,  \* 연구소: 과학 기술 (연구소), 연구 개발 (연구, 연구소)
      <<"gi_", "eob_">>,          \* 기업: 산업 동향
      <<"teug_", "heo_">>,        \* 특허: 연구 개발
      <<"beob_", "ryul_">>,       \* 법률: 정책 및 규제 (법, 법률)
      <<"h", "e", "l", "l", "o">> }   \* no keyword

\* ' '.join(words)
RECURSIVE JoinWords(_)
JoinWords(words) ==
    IF words = <<>> THEN <<>>
    ELSE IF Len(words) = 1 THEN words[1]
    ELSE words[1] \o <<" ">> \o JoinWords(Tail(words))

TextsOf(n) == {Str(JoinWords(ws)) : ws \in SeqsUpTo(Vocabulary, n)}

InitClassify ==
    /\ pc = "classify"
    /\ now = NowT
    /\ reference_date = None
    /\ FilterIdle
    /\ post \in {[title |-> t, content |-> c] :
                    t \in TextsOf(MaxTitleWords), c \in TextsOf(MaxContentWords)}
    /\ category = ""
    /\ summary = <<>>
    /\ ReportIdle
    /\ CacheIdle
    /\ CollectIdle
    /\ PipelineIdle

Classify ==
    /\ pc = "classify"
    /\ IF ClassifyRaises(post)
       THEN pc' = "raised" /\ UNCHANGED category
       ELSE pc' = "classified" /\ category' = _classify_category(post)
    /\ UNCHANGED <<clockVars, filterVars, post, summary, reportVars,
                   cacheVars, collectVars, pipelineVars>>

NextClassify == Classify

SpecClassify == InitClassify /\ [][NextClassify]_vars

\* category_order of ReportGenerator._create_report_content: the sequence
\* in which known categories are rendered
category_order == <<AI_TECH, SCIENCE, RESEARCH, INDUSTRY, POLICY, GITA>>

\* the keyword categories in the order of their declaration in
\* category_keywords
DeclaredOrder == <<AI_TECH, SCIENCE, INDUSTRY, RESEARCH, POLICY>>

\* the position of c in a sequence of categories
PositionIn(order, c) == CHOOSE i \in 1..Len(order) : order[i] = c

\* the score of the claims for one keyword list: 2 x (keywords occurring in
\* the title) + 1 x (keywords occurring in the content), ignoring case;
\* title and content are given in lower case
ClaimedScore(keywords, title, content) ==
    2 * Cardinality({k \in 1..Len(keywords) : Contains(title, Lower(keywords[k]))})
    + Cardinality({k \in 1..Len(keywords) : Contains(content, Lower(keywords[k]))})

\* the claimed scores of a post, by position in DeclaredOrder
ClaimedScores(p) ==
    LET t == Lower(Expand(p.title))
        c == Lower(Expand(p.content))
    IN  << ClaimedScore(Keywords_AI, t, c), ClaimedScore(Keywords_Science, t, c),
           ClaimedScore(Keywords_Industry, t, c),
           ClaimedScore(Keywords_Research, t, c),
           ClaimedScore(Keywords_Policy, t, c) >>

MaxOf(scores) ==
    CHOOSE m \in {scores[i] : i \in 1..Len(scores)} :
        \A i \in 1..Len(scores) : scores[i] <= m

\* the categories whose score is the maximum
TiedAtMax(scores) ==
    {DeclaredOrder[i] : i \in {k \in 1..Len(scores) : scores[k] = MaxOf(scores)}}

\* C4: the result is a category with the greatest score
\* (2 x title keywords + 1 x content keywords, case-insensitive), and it is
\* the catch-all category '기타' exactly when every category scores 0.
C4_ClassifyGreatestScore ==
    pc = "classified" =>
        LET scores == ClaimedScores(post) IN
        IF MaxOf(scores) = 0
        THEN category = GITA
        ELSE category \in TiedAtMax(scores)

\* a title keyword and content keywords of one category add up to its
\* score, which beats the title keyword of another category
C4_Witness ==
    /\ pc = "classified"
    /\ category = RESEARCH
    /\ ClaimedScores(post) = <<2, 1, 0, 3, 0>>

\* C5 as stated: among the categories sharing the maximum nonzero score the
\* result is the one that comes first in the order the report renders the
\* categories in (AI 기술, 과학 기술, 연구 개발, 산업 동향, 정책 및 규제).
C5_TieBreakRenderOrder ==
    pc = "classified" =>
        LET scores == ClaimedScores(post)
            tied == TiedAtMax(scores)
        IN  (MaxOf(scores) > 0 /\ Cardinality(tied) >= 2) =>
                /\ category \in tied
                /\ \A c \in tied :
                      PositionIn(category_order, category)
                          <= PositionIn(category_order, c)

\* C5 amended: among the categories sharing the maximum nonzero score the
\* result is the one declared first in the classifier's keyword table
\* (AI 기술, 과학 기술, 산업 동향, 연구 개발, 정책 및 규제).
C5_TieBreakDeclarationOrder ==
    pc = "classified" =>
        LET scores == ClaimedScores(post)
            tied == TiedAtMax(scores)
        IN  (MaxOf(scores) > 0 /\ Cardinality(tied) >= 2) =>
                /\ category \in tied
                /\ \A c \in tied :
                      PositionIn(DeclaredOrder, category)
                          <= PositionIn(DeclaredOrder, c)

\* 산업 동향 and 연구 개발 tie at the maximum and 산업 동향 is returned
C5_Witness ==
    /\ pc = "classified"
    /\ ClaimedScores(post) = <<0, 0, 1, 1, 0>>
    /\ category = INDUSTRY

\* C15: classification never raises for a post with a str title and a str
\* content, the empty string and text without any keyword included, and
\* what it returns is one of the five keyword categories or '기타'
C15_ClassifyTotal ==
    /\ pc # "raised"
    /\ pc = "classified" =>
          category \in {AI_TECH, SCIENCE, INDUSTRY, RESEARCH, POLICY, GITA}

\* an empty title with an empty content, and a text without any keyword,
\* both classified '기타'
C15_Witness ==
    /\ pc = "classified"
    /\ \/ Expand(post.title) = <<>> /\ Expand(post.content) = <<>>
       \/ Expand(post.title) = <<>>
            /\ Expand(post.content) = <<"h", "e", "l", "l", "o">>
    /\ category = GITA

----------------------------------------------------------------------------
(* Specification SpecSummary: _create_simple_summary on contents made of   *)
(* words of chosen lengths and the separators between them.                *)

MaxSegments == 2

\* lengths on both sides of the thresholds 10, 200 and 300
WordLengths == {0, 10, 11, 150, 151, 290, 300, 301}

Separators ==
    { <<>>, Str(<<".", " ">>), Str(<<".">>), Str(<<" ">>),
      Str(<<"?", "\n", " ">>) }

Segments == {<<Run("a", k)>> \o sep : k \in WordLengths, sep \in Separators}

RECURSIVE Flatten(_)
Flatten(texts) ==
    IF texts = <<>> THEN <<>> ELSE Head(texts) \o Flatten(Tail(texts))

SummaryContents == {Canon(Flatten(segs)) : segs \in SeqsUpTo(Segments, MaxSegments)}

InitSummary ==
    /\ pc = "summarize"
    /\ now = NowT
    /\ reference_date = None
    /\ FilterIdle
    /\ post \in {[title |-> <<>>, content |-> c] : c \in SummaryContents}
    /\ category = ""
    /\ summary = <<>>
    /\ ReportIdle
    /\ CacheIdle
    /\ CollectIdle
    /\ PipelineIdle

Summarize ==
    /\ pc = "summarize"
    /\ summary' = _create_simple_summary(post.content)
    /\ pc' = "summarized"
    /\ UNCHANGED <<clockVars, filterVars, post, category, reportVars,
                   cacheVars, collectVars, pipelineVars>>

NextSummary == Summarize

SpecSummary == InitSummary /\ [][NextSummary]_vars

\* s + '.', and a + '. ' + b + '.'
OneSentence(a) == Canon(a \o Str(<<".">>))
TwoSentences(a, b) == Canon(a \o Str(<<".", " ">>) \o b \o Str(<<".">>))

\* the truncation fallback of the claim: the first 200 characters, stripped,
\* followed by '...'
Fallback(content) ==
    Canon(Strip(Take(Canon(content), 200)) \o Str(<<".", ".", ".">>))

\* the summary holds one or two leading qualifying sentences of at most 300
\* characters together
WithinBudget(q, text) ==
    \/ /\ Len(q) >= 1
       /\ TextLen(q[1]) <= 300
       /\ text = OneSentence(q[1])
    \/ /\ Len(q) >= 2
       /\ TextLen(q[1]) + TextLen(q[2]) <= 300
       /\ text = TwoSentences(q[1], q[2])

\* C6 as stated, for a content that is not empty: with at least 2
\* qualifying sentences the summary holds at most 300 characters of
\* accumulated sentences (or, none fitting, is the truncation); with fewer
\* than 2 it is the truncation fallback of at most 203 characters.
C6_SummaryLengthAsStated ==
    (pc = "summarized" /\ post.content # <<>>) =>
        LET q == Sentences(post.content) IN
        IF Len(q) >= 2
        THEN WithinBudget(q, summary) \/ summary = Fallback(post.content)
        ELSE /\ summary = Fallback(post.content)
             /\ TextLen(summary) <= 203

\* C6 amended: an empty content gives the fixed message; when a qualifying
\* sentence exists and the first one has at most 300 characters, the summary
\* is the first qualifying sentence, or the first two when both fit in 300
\* characters, joined by '. ' and closed by '.'; in every other case it is
\* the truncation fallback of at most 203 characters.
C6_SummaryLength ==
    pc = "summarized" =>
        LET q == Sentences(post.content) IN
        IF post.content = <<>> THEN summary = NoContentMessage
        ELSE IF q = <<>> \/ TextLen(q[1]) > 300
        THEN /\ summary = Fallback(post.content)
             /\ TextLen(summary) <= 203
        ELSE IF Len(q) >= 2 /\ TextLen(q[1]) + TextLen(q[2]) <= 300
        THEN summary = TwoSentences(q[1], q[2])
        ELSE summary = OneSentence(q[1])

\* a single qualifying sentence is returned whole, and is longer than any
\* truncation fallback
C6_Witness ==
    /\ pc = "summarized"
    /\ Len(Sentences(post.content)) = 1
    /\ summary = OneSentence(Sentences(post.content)[1])
    /\ TextLen(summary) > 203

----------------------------------------------------------------------------
(* ReportGenerator (src/scripts/report_generator.py)                       *)
(*                                                                         *)
(* categorized_posts is a dict in insertion order: a sequence of           *)
(* [category, posts] entries with distinct categories.  The document is a  *)
(* sequence of lines, each a record naming the line and what it prints.    *)

ECONOMY == "gyeong_je_"      \* '경제', a category category_order does not list
SPORTS == "seu_po_cheu_"     \* '스포츠', a category category_order does not list

\* the category names of the model in the order of Python's str comparison
\* (by code point), the order sorted(categorized_posts.keys()) yields
CodepointOrder ==
    <<AI_TECH, ECONOMY, SCIENCE, GITA, INDUSTRY, SPORTS, RESEARCH, POLICY>>

\* datetime.min, midnight of the first day of year 1
DatetimeMin == (1 - EpochYear) * YearMinutes

\* base_date.strftime(self.report_config['date_format']): the format names
\* the day
Strftime(wall) == wall \div DayMinutes

DictKeys(d) == [i \in 1..Len(d) |-> d[i].category]
HasCategory(d, c) == \E i \in 1..Len(d) : d[i].category = c
PostsOf(d, c) == d[CHOOSE i \in 1..Len(d) : d[i].category = c].posts

Line(kind, c, k, text, date) ==
    [line |-> kind, category |-> c, n |-> k, text |-> text, date |-> date]

NoDate == [formatted |-> FALSE, day |-> 0, raw |-> EmptyPublished]
Day(d) == [formatted |-> TRUE, day |-> d, raw |-> EmptyPublished]

BlankLine == Line("", "", 0, <<>>, NoDate)
Plain(kind) == Line(kind, "", 0, <<>>, NoDate)

\* p.get('published', '')
PublishedOf(p) ==
    IF "published" \in DOMAIN p THEN p.published ELSE EmptyPublished

\* _parse_date: the sort key of a post.  A naive datetime is its wall clock,
\* an aware one its UTC instant; whatever fails to parse is datetime.min.
_parse_date(date_str) ==
    LET parsed == date_parser_parse(date_str) IN
    IF parsed.raised THEN [aware |-> FALSE, t |-> DatetimeMin]
    ELSE IF parsed.aware THEN [aware |-> TRUE, t |-> parsed.wall - parsed.offset]
    ELSE [aware |-> FALSE, t |-> parsed.wall]

\* _format_date: the day of the date, or the string itself when it does not
\* parse
_format_date(date_str) ==
    LET parsed == date_parser_parse(date_str) IN
    IF parsed.raised THEN [formatted |-> FALSE, day |-> 0, raw |-> date_str]
    ELSE Day(Strftime(parsed.wall))

SortKey(p) == _parse_date(PublishedOf(p))

\* comparing an offset-naive with an offset-aware datetime raises TypeError,
\* and sorting a list that holds both kinds of key has to compare two of them
SortRaises(posts) ==
    \E i, j \in 1..Len(posts) : SortKey(posts[i]).aware # SortKey(posts[j]).aware

\* one step of a stable descending sort: p goes behind every post whose key
\* is not smaller than its own
InsertDescending(sorted, p) ==
    LET ahead == Cardinality({i \in 1..Len(sorted) :
                                 SortKey(sorted[i]).t >= SortKey(p).t})
    IN  SubSeq(sorted, 1, ahead) \o <<p>> \o SubSeq(sorted, ahead + 1, Len(sorted))

\* sorted(posts, key=..., reverse=True), for keys that can be compared
RECURSIVE SortedDescending(_)
SortedDescending(posts) ==
    IF posts = <<>> THEN <<>>
    ELSE InsertDescending(SortedDescending(SubSeq(posts, 1, Len(posts) - 1)),
                          posts[Len(posts)])

\* _get_category_icon
_get_category_icon(c) ==
    CASE c = AI_TECH -> "robot"
      [] c = SCIENCE -> "microscope"
      [] c = INDUSTRY -> "chart"
      [] c = RESEARCH -> "magnifier"
      [] c = POLICY -> "clipboard"
      [] c = GITA -> "pin"
      [] OTHER -> "page"

\* sorted_categories without the canonical order: the dict's own order
SortedCategories_DictOrder(d) == DictKeys(d)

\* sorted_categories: the listed categories the dict holds, in the order of
\* category_order, then the dict's other categories in the dict's order
SortedCategories(d) ==
    SelectSeq(category_order, LAMBDA c : HasCategory(d, c))
    \o SelectSeq(DictKeys(d),
                 LAMBDA c : ~\E i \in 1..Len(category_order) : category_order[i] = c)

\* sorted(categorized_posts.keys())
SortedKeys(d) == SelectSeq(CodepointOrder, LAMBDA c : HasCategory(d, c))

\* post['title'], post['summary'] and post['link'] raise KeyError on a post
\* that lacks the key
PostRaises(p) == ~({"title", "summary", "link"} \subseteq DOMAIN p)

\* the lines of the i-th post of a category
PostLines(i, p) ==
    << Line("post_title", "", i, p.title, NoDate), BlankLine,
       Line("published", "", 0, <<>>, _format_date(PublishedOf(p))), BlankLine,
       Plain("summary_label"),
       Line("summary_quote", "", 0, p.summary, NoDate), BlankLine,
       Line("link", "", p.link, <<>>, NoDate), BlankLine,
       Plain("rule"), BlankLine >>

RECURSIVE PostsLines(_, _)
PostsLines(sorted_posts, i) ==
    IF i > Len(sorted_posts) THEN <<>>
    ELSE PostLines(i, sorted_posts[i]) \o PostsLines(sorted_posts, i + 1)

\* the body of the loop over sorted_categories for one category
CategoryLines(d, c) ==
    IF PostsOf(d, c) = <<>> THEN <<>>
    ELSE << Line("category", c, 0, <<>>, NoDate), BlankLine >>
         \o PostsLines(SortedDescending(PostsOf(d, c)), 1)

RECURSIVE CategoriesLines(_, _)
CategoriesLines(d, cats) ==
    IF cats = <<>> THEN <<>>
    ELSE CategoryLines(d, Head(cats)) \o CategoriesLines(d, Tail(cats))

\* the loop over sorted_categories raises when a category's sort or one of
\* its posts does
BodyRaises(d) ==
    \E i \in 1..Len(d) :
        /\ d[i].posts # <<>>
        /\ \/ SortRaises(d[i].posts)
           \/ \E k \in 1..Len(d[i].posts) : PostRaises(d[i].posts[k])

RECURSIVE TotalPosts(_)
TotalPosts(d) == IF d = <<>> THEN 0 ELSE Len(Head(d).posts) + TotalPosts(Tail(d))

RECURSIVE DistributionLines(_, _)
DistributionLines(d, cats) ==
    IF cats = <<>> THEN <<>>
    ELSE <<Line("distribution", Head(cats), Len(PostsOf(d, Head(cats))), <<>>,
                NoDate)>>
         \o DistributionLines(d, Tail(cats))

HeaderLines(d, ref, t) ==
    << Plain("title"), BlankLine,
       Line("report_date", "", 0, <<>>, Day(Strftime(BaseDate(ref, t)))), BlankLine,
       Plain("summary_heading"), BlankLine,
       Line("total_posts", "", TotalPosts(d), <<>>, NoDate),
       Plain("period"),
       Line("category_count", "", Len(d), <<>>, NoDate), BlankLine,
       Plain("distribution_heading"), BlankLine >>
    \o DistributionLines(d, SortedKeys(d))
    \o << BlankLine, Plain("rule"), BlankLine >>

\* the footer; its last line prints datetime.now()
FooterLines(t) ==
    << BlankLine, Plain("rule"), BlankLine, Plain("generated_note"), BlankLine,
       Line("generated_at", "", t, <<>>, NoDate) >>

\* _create_report_content: the lines, or an exception
_create_report_content(d, ref, t) ==
    IF BodyRaises(d) THEN [raised |-> TRUE, lines |-> <<>>]
    ELSE [raised |-> FALSE,
          lines |-> HeaderLines(d, ref, t)
                    \o CategoriesLines(d, SortedCategories(d))
                    \o FooterLines(t)]

\* the filename taken from the wall clock instead of the base date
ReportFileName_FromNow(ref, t) == Strftime(t)

\* the filename of _save_report, without its fixed suffix
ReportFileName(ref, t) == Strftime(BaseDate(ref, t))

NoPath == [dir |-> "", name |-> 0]

\* _save_report with the copy outside any try: a failing copy leaves
\* generate_report as an exception
_save_report_CopyFatal(content, ref, t, primary, viewer, copy_ok) ==
    LET name == ReportFileName(ref, t) IN
    [raised |-> ~copy_ok,
     path |-> IF copy_ok THEN [dir |-> "output_dir", name |-> name] ELSE NoPath,
     output_dir |-> SetKey(primary, name, content),
     web_reports_dir |-> IF copy_ok THEN SetKey(viewer, name, content) ELSE viewer,
     copied |-> copy_ok]

\* _save_report: writes the primary file, then copies it to the web viewer's
\* directory inside a try; a failing copy is logged and nothing more.
\* copy_ok says whether the copy goes through.
_save_report(content, ref, t, primary, viewer, copy_ok) ==
    LET name == ReportFileName(ref, t) IN
    [raised |-> FALSE,
     path |-> [dir |-> "output_dir", name |-> name],
     output_dir |-> SetKey(primary, name, content),
     web_reports_dir |-> IF copy_ok THEN SetKey(viewer, name, content) ELSE viewer,
     copied |-> copy_ok]

\* generate_report: _create_report_content, then _save_report.  An exception
\* of _create_report_content leaves generate_report before anything is
\* written.
GenerateReport ==
    /\ pc = "render"
    /\ Len(reports) < render_runs
    /\ LET made == _create_report_content(categorized_posts, reference_date, now)
       IN  IF made.raised
           THEN /\ reports' = Append(reports, [raised |-> TRUE, content |-> <<>>,
                                               path |-> NoPath, copied |-> FALSE])
                /\ UNCHANGED <<output_dir, web_reports_dir>>
           ELSE \E copy_ok \in BOOLEAN :
                   LET saved == _save_report(made.lines, reference_date, now,
                                             output_dir, web_reports_dir, copy_ok)
                   IN  /\ reports' = Append(reports,
                                            [raised |-> saved.raised,
                                             content |-> made.lines,
                                             path |-> saved.path,
                                             copied |-> saved.copied])
                       /\ output_dir' = saved.output_dir
                       /\ web_reports_dir' = saved.web_reports_dir
    /\ now' = now + 1
    /\ UNCHANGED <<pc, reference_date, filterVars, analyzerVars,
                   categorized_posts, render_runs, cacheVars, collectVars,
                   pipelineVars>>

----------------------------------------------------------------------------
(* Specifications SpecRender (one generate_report call on every dict within *)
(* the bounds) and SpecRerender (the same dict rendered twice).             *)

MaxCategories == 3
MaxPostsPerCategory == 2

RenderCategories == {AI_TECH, GITA, ECONOMY, SPORTS}

\* an analyzed post as the renderer reads it
AnalyzedPost(id, pub, c) ==
    [title |-> Str(<<"t">>), link |-> id, published |-> pub, content |-> <<>>,
     category |-> c, summary |-> Str(<<"s">>)]

RenderPublished ==
    { NaivePublished(10 * DayMinutes), NaivePublished(12 * DayMinutes),
      AwarePublished(11 * DayMinutes, KstOffset), EmptyPublished }

\* the post lists of one category, posts numbered from base + 1
PostLists(c, base, pubs, n) ==
    {[i \in 1..Len(ps) |-> AnalyzedPost(base + i, ps[i], c)] : ps \in SeqsUpTo(pubs, n)}

\* sequences of distinct categories
DistinctSeqs(S, n) ==
    {cs \in SeqsUpTo(S, n) : \A i, j \in 1..Len(cs) : i # j => cs[i] # cs[j]}

\* the first category holds any list of posts, the others none or one
RenderDicts(n) ==
    {<<>>} \cup
    UNION { UNION { { <<[category |-> cs[1], posts |-> first]>>
                      \o [i \in 1..(Len(cs) - 1) |->
                            [category |-> cs[i + 1],
                             posts |-> IF i \in filled
                                       THEN <<AnalyzedPost(10 * i, NaivePublished(10 * DayMinutes), cs[i + 1])>>
                                       ELSE <<>>]] :
                      first \in PostLists(cs[1], 0, RenderPublished, MaxPostsPerCategory) } :
                    filled \in SUBSET (1..(Len(cs) - 1)) } :
            cs \in DistinctSeqs(RenderCategories, n) \ {<<>>} }

RenderIdle(runs) ==
    /\ now = NowT
    /\ FilterIdle
    /\ AnalyzerIdle
    /\ CacheIdle
    /\ CollectIdle
    /\ PipelineIdle
    /\ render_runs = runs
    /\ reports = <<>>
    /\ output_dir = <<>>
    /\ web_reports_dir = <<>>

InitRender ==
    /\ pc = "render"
    /\ reference_date = Datetime(RefT)
    /\ categorized_posts \in RenderDicts(MaxCategories)
    /\ RenderIdle(1)

NextRender == GenerateReport

SpecRender == InitRender /\ [][NextRender]_vars

InitRerender ==
    /\ pc = "render"
    /\ reference_date \in {None, Datetime(RefT)}
    /\ categorized_posts \in RenderDicts(1)
    /\ RenderIdle(2)

SpecRerender == InitRerender /\ [][NextRender]_vars

----------------------------------------------------------------------------
(* Claims about the rendered report                                        *)

\* the canonical sequence the report's body is said to follow
CanonicalSequence == <<AI_TECH, SCIENCE, RESEARCH, INDUSTRY, POLICY, GITA>>

IsCanonical(c) == \E i \in 1..Len(CanonicalSequence) : CanonicalSequence[i] = c

RECURSIVE CategoryHeaders(_)
CategoryHeaders(lines) ==
    IF lines = <<>> THEN <<>>
    ELSE (IF Head(lines).line = "category" THEN <<Head(lines).category>> ELSE <<>>)
         \o CategoryHeaders(Tail(lines))

Populated(d, c) == HasCategory(d, c) /\ PostsOf(d, c) # <<>>

ExpectedHeaders(d) ==
    SelectSeq(CanonicalSequence, LAMBDA c : Populated(d, c))
    \o SelectSeq(DictKeys(d), LAMBDA c : Populated(d, c) /\ ~IsCanonical(c))

\* C7: the category headers of a rendered report are the populated canonical
\* categories in the canonical sequence, followed by the populated categories
\* outside the canonical list in the order of the categorized map; each
\* populated category has exactly one header and an empty category none.
C7_CategoryOrder ==
    \A k \in 1..Len(reports) :
        ~reports[k].raised =>
            CategoryHeaders(reports[k].content) = ExpectedHeaders(categorized_posts)

\* a map that lists the categories in another order than the report does:
\* unlisted first, canonical ones reversed
C7_Witness ==
    /\ Len(reports) = 1
    /\ ~reports[1].raised
    /\ DictKeys(categorized_posts) = <<SPORTS, GITA, AI_TECH>>
    /\ CategoryHeaders(reports[1].content) = <<AI_TECH, GITA, SPORTS>>

\* the links printed under the header of category c, in the order printed
RECURSIVE LinksUnder(_, _, _)
LinksUnder(lines, c, current) ==
    IF lines = <<>> THEN <<>>
    ELSE LET l == Head(lines) IN
         IF l.line = "category" THEN LinksUnder(Tail(lines), c, l.category)
         ELSE (IF l.line = "link" /\ current = c THEN <<l.n>> ELSE <<>>)
              \o LinksUnder(Tail(lines), c, current)

PostWithLink(d, c, id) ==
    LET ps == PostsOf(d, c) IN ps[CHOOSE i \in 1..Len(ps) : ps[i].link = id]

\* the instant a published value names; what does not parse counts as the
\* minimum date
ClaimedInstant(pub) ==
    LET parsed == date_parser_parse(pub) IN
    IF parsed.raised THEN DatetimeMin
    ELSE IF parsed.aware THEN parsed.wall - parsed.offset ELSE parsed.wall

DescendingUnder(d, lines, c) ==
    LET ids == LinksUnder(lines, c, "") IN
    /\ Len(ids) = Len(PostsOf(d, c))
    /\ \A i \in 1..(Len(ids) - 1) :
          ClaimedInstant(PublishedOf(PostWithLink(d, c, ids[i])))
              >= ClaimedInstant(PublishedOf(PostWithLink(d, c, ids[i + 1])))

\* C8: rendering never fails on the dates of a category, whatever mix of
\* aware, naive and unparseable published values it holds, and lists the
\* posts of each category by date descending, the unparseable ones last.
C8_DateOrderNeverFails ==
    \A k \in 1..Len(reports) :
        /\ ~reports[k].raised
        /\ \A i \in 1..Len(categorized_posts) :
              DescendingUnder(categorized_posts, reports[k].content,
                              categorized_posts[i].category)

AllButLast(lines) == SubSeq(lines, 1, Len(lines) - 1)

----------------------------------------------------------------------------
(* AjunewsCollector._load_or_generate_url_list                              *)
(* (src/scripts/ajunews_collector.py)                                      *)
(*                                                                         *)
(* The cache file is absent, or present and not loadable as a JSON object, *)
(* or a JSON object `data` that may hold the keys 'updated' and 'urls'.    *)
(* An 'updated' string is described, like a published string, by what the  *)
(* parser makes of it.                                                     *)

known_urls ==
    << "https://www.ajunews.com/view/20251217160834163",
       "https://www.ajunews.com/view/20251124072337005",
       "https://www.ajunews.com/view/20250925081655847",
       "https://www.ajunews.com/view/20251020092112653",
       "https://www.ajunews.com/view/20250825082808870",
       "https://www.ajunews.com/view/20250716103132938",
       "https://www.ajunews.com/view/20250514085620201",
       "https://www.ajunews.com/view/20250114095600305" >>

NoCacheFile == [exists |-> FALSE]
UnreadableCacheFile == [exists |-> TRUE, readable |-> FALSE]
CacheFile(data) == [exists |-> TRUE, readable |-> TRUE, data |-> data]

\* datetime.fromisoformat: ValueError on what is no ISO timestamp, an aware
\* datetime for a string with a UTC offset, a naive one otherwise
datetime_fromisoformat(s) ==
    IF s.kind = "date"
    THEN [raised |-> FALSE, wall |-> s.wall, aware |-> s.aware, offset |-> s.offset]
    ELSE [raised |-> TRUE, wall |-> 0, aware |-> FALSE, offset |-> 0]

\* '2000-01-01', the default of cache.get('updated', ...)
DefaultUpdated == NaivePublished((2000 - EpochYear) * YearMinutes)

\* _load_or_generate_url_list at clock t.  Whatever raises inside the try
\* (open, json.load, .get on what is no dict, fromisoformat, the subtraction
\* of an aware datetime from the naive now) ends in the except clause and in
\* known_urls.
_load_or_generate_url_list(file, t) ==
    IF ~file.exists THEN known_urls
    ELSE IF ~file.readable THEN known_urls
    ELSE LET cache == file.data
             updated == IF "updated" \in DOMAIN cache THEN cache.updated
                        ELSE DefaultUpdated
             cache_date == datetime_fromisoformat(updated)
         IN  IF cache_date.raised THEN known_urls
             ELSE IF cache_date.aware THEN known_urls
             ELSE IF t - cache_date.wall < DayMinutes
                  THEN IF "urls" \in DOMAIN cache THEN cache.urls ELSE known_urls
                  ELSE known_urls

----------------------------------------------------------------------------
(* Specification SpecCache: one _load_or_generate_url_list call on every   *)
(* cache file within the bounds.                                           *)

MaxCacheUrls == 2

CachedUrlChoices ==
    { "https://www.ajunews.com/view/c1", "https://www.ajunews.com/view/c2" }

\* 'updated' values around the freshness threshold, in the future, with a
\* UTC offset, and not a timestamp at all
UpdatedChoices(t) ==
    { NaivePublished(t - (DayMinutes - 1)), NaivePublished(t - DayMinutes),
      NaivePublished(t - (DayMinutes + 1)), NaivePublished(t),
      NaivePublished(t + DayMinutes),
      AwarePublished(t - 120, KstOffset), AwarePublished(t - 3 * DayMinutes, KstOffset),
      MalformedPublished, EmptyPublished }

CacheData(t) ==
    { [updated |-> u, urls |-> us] :
          u \in UpdatedChoices(t), us \in SeqsUpTo(CachedUrlChoices, MaxCacheUrls) }
    \cup { [updated |-> u] : u \in UpdatedChoices(t) }
    \cup { [urls |-> us] : us \in SeqsUpTo(CachedUrlChoices, MaxCacheUrls) }
    \cup { <<>> }

CacheFiles(t) ==
    {NoCacheFile, UnreadableCacheFile} \cup {CacheFile(data) : data \in CacheData(t)}

InitCache ==
    /\ pc = "load"
    /\ now = NowT
    /\ reference_date = None
    /\ cache_file \in CacheFiles(NowT)
    /\ url_list = <<>>
    /\ FilterIdle
    /\ AnalyzerIdle
    /\ ReportIdle
    /\ CollectIdle
    /\ PipelineIdle

LoadUrlList ==
    /\ pc = "load"
    /\ pc' = "loaded"
    /\ url_list' = _load_or_generate_url_list(cache_file, now)
    /\ UNCHANGED <<clockVars, filterVars, analyzerVars, reportVars, cache_file,
                   collectVars, pipelineVars>>

NextCache == LoadUrlList

SpecCache == InitCache /\ [][NextCache]_vars

\* the age the cache's 'updated' names at clock t, the clock of a machine
\* in the zone of the offset the timestamp carries
HasTimestamp(file) ==
    /\ file.exists
    /\ file.readable
    /\ "updated" \in DOMAIN file.data
    /\ file.data.updated.kind = "date"

AgeOf(file, t) == t - file.data.updated.wall

StoredUrls(file) ==
    IF "urls" \in DOMAIN file.data THEN file.data.urls ELSE known_urls

\* C10: the URL list is the cache's stored list, verbatim, exactly when the
\* cache file exists, is readable and now - updated < 1 day, and the static
\* list in every other case.  A cache without the 'updated' key has no age,
\* and one without the 'urls' key no stored list.
C10_CacheIffFresh ==
    pc = "loaded" =>
        url_list = IF HasTimestamp(cache_file) /\ AgeOf(cache_file, now) < DayMinutes
                   THEN StoredUrls(cache_file)
                   ELSE known_urls

----------------------------------------------------------------------------
(* NaverBlogCollector.collect_posts (src/scripts/collector.py)             *)
(*                                                                         *)
(* web.naver maps the link of a post to what its page answers: an error,   *)
(* or the text of the containers the scraper looks for.                    *)

\* content[:5000]
ContentCap == 5000
\* blog_config.get('max_posts', collection_config.get('max_posts_per_source', 20))
DefaultMaxPostsPerSource == 20

Min(a, b) == IF a <= b THEN a ELSE b

\* _scrape_post_detail at clock t: the first non-empty of the two containers
\* and the RSS summary, capped; the RSS fields alone when anything raises
_scrape_post_detail(p, pages, t) ==
    LET page == pages[p.link] IN
    IF page.error
    THEN [title |-> p.title, link |-> p.link, published |-> p.published,
          content |-> p.summary, collected_at |-> t]
    ELSE LET content == IF page.se_main_container # <<>>
                        THEN page.se_main_container
                        ELSE IF page.post_view # <<>> THEN page.post_view
                        ELSE p.summary
         IN  [title |-> p.title, link |-> p.link, published |-> p.published,
              content |-> Take(content, ContentCap), collected_at |-> t]

\* what a collector's item loop does to the source, in order: a request of a
\* page and time.sleep(1)
Get(url) == [op |-> "get", url |-> url]
Sleep == [op |-> "sleep"]

\* the loop of collect_posts over the candidates from the i-th on:
\* _scrape_post_detail catches whatever its request raises, so the sleep
\* that follows it in the try body is always reached
RECURSIVE NaverTrace(_, _)
NaverTrace(cands, i) ==
    IF i > Len(cands) THEN <<>>
    ELSE <<Get(cands[i].link), Sleep>> \o NaverTrace(cands, i + 1)

\* the artifact _save_collected_data writes
CollectedPostsFile(posts, ref, t) ==
    [file |-> "collected_posts", timestamp |-> BaseDate(ref, t), data |-> posts]

\* the posts of the candidates from the i-th on whose detail request did not
\* fail
RECURSIVE ScrapedOnly(_, _, _, _)
ScrapedOnly(cands, i, pages, t) ==
    IF i > Len(cands) THEN <<>>
    ELSE (IF pages[cands[i].link].error THEN <<>>
          ELSE <<_scrape_post_detail(cands[i], pages, t)>>)
         \o ScrapedOnly(cands, i + 1, pages, t)

\* NaverCollectPosts leaving out the candidates whose detail request failed
NaverCollectPosts_SkipFailed(cfg, rss, ref, t, lookback, pages, raises) ==
    LET recent == _filter_recent_posts(rss, ref, t, lookback)
        max_posts == IF "max_posts" \in DOMAIN cfg THEN cfg.max_posts
                     ELSE DefaultMaxPostsPerSource
        detailed_posts ==
            ScrapedOnly(SubSeq(recent, 1, Min(Len(recent), max_posts)), 1,
                        pages, t)
        trace == NaverTrace(SubSeq(recent, 1, Min(Len(recent), max_posts)), 1)
    IN  IF raises
        THEN [raised |-> TRUE, posts |-> <<>>, saved |-> <<>>, trace |-> trace]
        ELSE [raised |-> FALSE, posts |-> detailed_posts,
              saved |-> <<CollectedPostsFile(detailed_posts, ref, t)>>,
              trace |-> trace]

\* collect_posts of the RSS collector: fetch, filter, scrape the first
\* max_posts recent posts, save.  `raises` says whether a step outside the
\* collector's own try blocks raises (the lookup of a missing configuration
\* key, the write of the artifact).
NaverCollectPosts(cfg, rss, ref, t, lookback, pages, raises) ==
    LET recent == _filter_recent_posts(rss, ref, t, lookback)
        max_posts == IF "max_posts" \in DOMAIN cfg THEN cfg.max_posts
                     ELSE DefaultMaxPostsPerSource
        detailed_posts ==
            [i \in 1..Min(Len(recent), max_posts) |->
                _scrape_post_detail(recent[i], pages, t)]
        trace == NaverTrace(SubSeq(recent, 1, Min(Len(recent), max_posts)), 1)
    IN  IF raises
        THEN [raised |-> TRUE, posts |-> <<>>, saved |-> <<>>, trace |-> trace]
        ELSE [raised |-> FALSE, posts |-> detailed_posts,
              saved |-> <<CollectedPostsFile(detailed_posts, ref, t)>>,
              trace |-> trace]

----------------------------------------------------------------------------
(* AjunewsCollector.collect_posts (src/scripts/ajunews_collector.py)       *)
(*                                                                         *)
(* web.aju maps a URL to what its page answers: an error, or a title, a    *)
(* publication string and a body.  A publication string of kind "date" is  *)
(* an ISO timestamp.                                                       *)

DefaultMaxPosts == 10
DefaultYearFilter == 2025

\* '곽재원'
AjuAuthor == "gwag_jae_won_"
\* '곽재원의 Now&Future (아주경제)'
AjuSource == "gwag_jae_won_ui_ Now&Future (a_ju_gyeong_je_)"

\* \s*
AnySpace == "\\s*"

\* the three patterns of _is_now_future_column
ColumnPatterns ==
    << <<"[", "gwag_", "jae_", "won_", "ui_", AnySpace,
         "N", "o", "w", "&", "F", "u", "t", "u", "r", "e", "]">>,
       <<"[", "gwag_", "jae_", "won_", "ui_", AnySpace, "N", "o", "w", AnySpace,
         "&", AnySpace, "F", "u", "t", "u", "r", "e", "]">>,
       <<"gwag_", "jae_", "won_", "ui_", AnySpace,
         "N", "o", "w", "&", "F", "u", "t", "u", "r", "e">> >>

\* whether the pattern matches a prefix of chars, ignoring case
RECURSIVE MatchesAt(_, _)
MatchesAt(pattern, chars) ==
    IF pattern = <<>> THEN TRUE
    ELSE IF Head(pattern) = AnySpace
    THEN \/ MatchesAt(Tail(pattern), chars)
         \/ /\ chars # <<>>
            /\ Head(chars) \in Whitespace
            /\ MatchesAt(pattern, Tail(chars))
    ELSE /\ chars # <<>>
         /\ LowerChar(Head(chars)) = LowerChar(Head(pattern))
         /\ MatchesAt(Tail(pattern), Tail(chars))

\* re.search(pattern, title, re.IGNORECASE)
re_search(pattern, chars) ==
    \E i \in 1..(Len(chars) + 1) : MatchesAt(pattern, SubSeq(chars, i, Len(chars)))

_is_now_future_column(title) ==
    \E k \in 1..Len(ColumnPatterns) : re_search(ColumnPatterns[k], title)

\* a page with neither datePublished nor an article:published_time tag
AbsentPublished == [kind |-> "absent", wall |-> 0, aware |-> FALSE, offset |-> 0]

\* _extract_date at clock t: the string the page gives, the empty one
\* included, and datetime.now().isoformat() for a page that gives none
_extract_date(page, t) ==
    IF page.published.kind = "absent" THEN NaivePublished(t) ELSE page.published

\* _scrape_article on a page that answered: None for a title that does not
\* name the column (the empty title of a page without one included), else
\* the post.
_scrape_article(url, page, t) ==
    IF ~_is_now_future_column(page.title) THEN [none |-> TRUE]
    ELSE [none |-> FALSE,
          post |-> [title |-> page.title, url |-> url, author |-> AjuAuthor,
                    published |-> _extract_date(page, t),
                    tags |-> <<>>, content |-> page.content,
                    source |-> AjuSource]]

\* _is_valid_post: the year of an ISO publication string is the filter year;
\* a post whose string is empty or no ISO timestamp is valid
_is_valid_post(p, year_filter) ==
    LET published == IF "published" \in DOMAIN p THEN p.published
                     ELSE EmptyPublished
    IN  IF published.kind = "empty" THEN TRUE
        ELSE LET pub_date == datetime_fromisoformat(published) IN
             IF pub_date.raised THEN TRUE
             ELSE YearOf(pub_date.wall) = year_filter

\* the loop of collect_posts over urls from index i on with the posts
\* collected and the requests and sleeps made so far: a request that raises
\* goes to `continue` past the sleep, an article that is None or not valid
\* is passed over and slept on, and the loop ends with the max_posts-th post
RECURSIVE AjuLoop(_, _, _, _, _, _, _, _)
AjuLoop(urls, i, posts, trace, pages, t, max_posts, year_filter) ==
    IF i > Len(urls) THEN [posts |-> posts, trace |-> trace]
    ELSE LET page == pages[urls[i]]
             got == Append(trace, Get(urls[i]))
         IN
         IF page.error
         THEN AjuLoop(urls, i + 1, posts, got, pages, t, max_posts, year_filter)
         ELSE LET article == _scrape_article(urls[i], page, t) IN
              IF ~article.none /\ _is_valid_post(article.post, year_filter)
              THEN IF Len(posts) + 1 >= max_posts
                   THEN [posts |-> Append(posts, article.post), trace |-> got]
                   ELSE AjuLoop(urls, i + 1, Append(posts, article.post),
                                Append(got, Sleep), pages, t, max_posts,
                                year_filter)
              ELSE AjuLoop(urls, i + 1, posts, Append(got, Sleep), pages, t,
                           max_posts, year_filter)

\* 'ajunews_url_cache.json' of feeds_dir, the directory _save_posts and
\* _save_collected_data write to
CacheFileName == "ajunews_url_cache"

\* the cache file after the artifacts of `saved` were written in order: a
\* write under the cache's name replaces the cache
RECURSIVE CacheAfter(_, _)
CacheAfter(file, saved) ==
    IF saved = <<>> THEN file
    ELSE IF Head(saved).file = CacheFileName
    THEN CacheAfter(CacheFile(Head(saved).data), Tail(saved))
    ELSE CacheAfter(file, Tail(saved))

\* _save_posts writing the URLs it scraped under the cache's name
AjunewsFile_OverCache(posts, t) ==
    [file |-> CacheFileName, timestamp |-> t,
     data |-> [updated |-> NaivePublished(t),
               urls |-> [i \in 1..Len(posts) |-> posts[i].url]]]

\* the artifact _save_posts writes
AjunewsFile(posts, t) ==
    [file |-> "ajunews_kwak", timestamp |-> t, data |-> posts]

\* the loop going over the whole list
CandidateUrls_WholeList(urls, max_posts) == urls

\* url_list[:self.max_posts * 2]
CandidateUrls(urls, max_posts) == SubSeq(urls, 1, Min(Len(urls), max_posts * 2))

\* AjuCollectPosts whose loop has no break
AjuCollectPosts_NoBreak(cfg, file, t, pages, raises) ==
    LET max_posts == IF "max_posts" \in DOMAIN cfg THEN cfg.max_posts
                     ELSE DefaultMaxPosts
        year_filter == IF "year_filter" \in DOMAIN cfg THEN cfg.year_filter
                       ELSE DefaultYearFilter
        urls == _load_or_generate_url_list(file, t)
        loop == AjuLoop(CandidateUrls(urls, max_posts), 1, <<>>,
                        <<>>, pages, t, Len(urls) + 1, year_filter)
    IN  IF raises
        THEN [raised |-> TRUE, posts |-> <<>>, saved |-> <<>>,
              trace |-> loop.trace]
        ELSE [raised |-> FALSE, posts |-> loop.posts,
              saved |-> <<AjunewsFile(loop.posts, t)>>, trace |-> loop.trace]

\* collect_posts of the column collector; reference_date is not read.
\* `raises` says whether a step outside the loop's try block raises (the
\* write of the artifact).
AjuCollectPosts(cfg, file, t, pages, raises) ==
    LET max_posts == IF "max_posts" \in DOMAIN cfg THEN cfg.max_posts
                     ELSE DefaultMaxPosts
        year_filter == IF "year_filter" \in DOMAIN cfg THEN cfg.year_filter
                       ELSE DefaultYearFilter
        urls == _load_or_generate_url_list(file, t)
        loop == AjuLoop(CandidateUrls(urls, max_posts), 1, <<>>,
                        <<>>, pages, t, max_posts, year_filter)
    IN  IF raises
        THEN [raised |-> TRUE, posts |-> <<>>, saved |-> <<>>,
              trace |-> loop.trace]
        ELSE [raised |-> FALSE, posts |-> loop.posts,
              saved |-> <<AjunewsFile(loop.posts, t)>>, trace |-> loop.trace]

----------------------------------------------------------------------------
(* MultiSourceCollector (src/scripts/multi_source_collector.py)            *)
(*                                                                         *)
(* A dict whose insertion order matters (source_stats) is a sequence of    *)
(* [source, count] entries with distinct sources.                          *)

NAVER == "naver_blog"
AJU == "ajunews_column"

\* data_sources_config.get(name, {}).get('enabled', False)
Enabled(cfgs, name) ==
    /\ name \in DOMAIN cfgs
    /\ "enabled" \in DOMAIN cfgs[name]
    /\ cfgs[name].enabled

\* _initialize_collectors: the enabled sources, the blog before the column
_initialize_collectors(cfgs) ==
    SelectSeq(<<NAVER, AJU>>, LAMBDA name : Enabled(cfgs, name))

\* the display name taken to be the identifier whatever is configured
DisplayName_IgnoreConfig(cfgs, name) == name

\* source_config.get('name', source_name)
DisplayName(cfgs, name) ==
    IF name \in DOMAIN cfgs /\ "name" \in DOMAIN cfgs[name] THEN cfgs[name].name
    ELSE name

\* Stamp without the test `if 'source' not in post`
Stamp_OverwriteSource(p, name, source_display_name) ==
    SetKey(SetKey(SetKey(p, "data_source", name),
                  "source_display_name", source_display_name),
           "source", source_display_name)

\* the three assignments to a post
Stamp(p, name, source_display_name) ==
    LET stamped == SetKey(SetKey(p, "data_source", name),
                          "source_display_name", source_display_name)
    IN  IF "source" \in DOMAIN stamped THEN stamped
        ELSE SetKey(stamped, "source", source_display_name)

\* source_stats[name] = count
SetStat(stats, name, count) ==
    IF \E i \in 1..Len(stats) : stats[i].source = name
    THEN [i \in 1..Len(stats) |->
             IF stats[i].source = name THEN [source |-> name, count |-> count]
             ELSE stats[i]]
    ELSE Append(stats, [source |-> name, count |-> count])

\* OnSuccess putting the posts of the source before the aggregate
OnSuccess_Prepend(name, posts, cfgs, all, stats) ==
    [all_posts |-> [i \in 1..Len(posts) |->
                       Stamp(posts[i], name, DisplayName(cfgs, name))] \o all,
     source_stats |-> SetStat(stats, name, Len(posts))]

\* the try body after collect_posts has returned
OnSuccess(name, posts, cfgs, all, stats) ==
    [all_posts |-> all \o [i \in 1..Len(posts) |->
                              Stamp(posts[i], name, DisplayName(cfgs, name))],
     source_stats |-> SetStat(stats, name, Len(posts))]

\* an except clause that also throws away what was collected before
OnException_ResetAggregate(name, all, stats) ==
    [all_posts |-> <<>>, source_stats |-> SetStat(stats, name, 0)]

\* the except clause
OnException(name, all, stats) ==
    [all_posts |-> all, source_stats |-> SetStat(stats, name, 0)]

\* the loop body without its try/except: the exception leaves the run
HandleSource_NoExcept(name, outcome, cfgs, all, stats) ==
    IF outcome.raised
    THEN [raised |-> TRUE, all_posts |-> all, source_stats |-> stats]
    ELSE LET done == OnSuccess(name, outcome.posts, cfgs, all, stats) IN
         [raised |-> FALSE, all_posts |-> done.all_posts,
          source_stats |-> done.source_stats]

\* the body of the loop over the collectors, given how collect_posts ended
HandleSource(name, outcome, cfgs, all, stats) ==
    IF outcome.raised
    THEN LET done == OnException(name, all, stats) IN
         [raised |-> FALSE, all_posts |-> done.all_posts,
          source_stats |-> done.source_stats]
    ELSE LET done == OnSuccess(name, outcome.posts, cfgs, all, stats) IN
         [raised |-> FALSE, all_posts |-> done.all_posts,
          source_stats |-> done.source_stats]

\* CombinedSourcesFile named after the wall clock whatever the reference date
CombinedSourcesFile_FromNow(all, stats, ref, t) ==
    [file |-> "combined_sources", timestamp |-> t,
     data |-> [collected_at |-> t, reference_date |-> ref,
               total_count |-> Len(all), source_stats |-> stats,
               sources |-> [i \in 1..Len(stats) |-> stats[i].source],
               posts |-> all]]

\* the artifact _save_combined_results writes
CombinedSourcesFile(all, stats, ref, t) ==
    [file |-> "combined_sources", timestamp |-> BaseDate(ref, t),
     data |-> [collected_at |-> t, reference_date |-> ref,
               total_count |-> Len(all), source_stats |-> stats,
               sources |-> [i \in 1..Len(stats) |-> stats[i].source],
               posts |-> all]]

SourceConfig(name) ==
    IF name \in DOMAIN data_sources_config THEN data_sources_config[name]
    ELSE <<>>

\* collector.collect_posts(reference_date) of the collector of a source
collect_posts(name, raises) ==
    IF name = NAVER
    THEN NaverCollectPosts(SourceConfig(NAVER), rss_posts, reference_date, now,
                           days_lookback, web.naver, raises)
    ELSE AjuCollectPosts(SourceConfig(AJU), cache_file, now, web.aju, raises)

\* One pass of the loop of collect_all_sources: the next collector runs and
\* returns posts or raises; its posts are stamped and appended and counted,
\* or its count is set to 0.
CollectSource ==
    /\ pc = "collect"
    /\ cursor <= Len(collectors)
    /\ \E raises \in BOOLEAN :
          LET name == collectors[cursor]
              outcome == collect_posts(name, raises)
              handled == HandleSource(name, outcome, data_sources_config,
                                      all_posts, source_stats)
          IN  /\ collected' = Append(collected,
                                     [source |-> name, raised |-> outcome.raised,
                                      posts |-> outcome.posts,
                                      trace |-> outcome.trace])
              /\ feeds_dir' = feeds_dir \o outcome.saved
              /\ cache_file' = CacheAfter(cache_file, outcome.saved)
              /\ all_posts' = handled.all_posts
              /\ source_stats' = handled.source_stats
              /\ run_raised' = handled.raised
              /\ pc' = IF handled.raised THEN "raised" ELSE pc
    /\ cursor' = cursor + 1
    /\ UNCHANGED <<clockVars, filterVars, analyzerVars, reportVars, url_list,
                   data_sources_config, collectors, web, pipelineVars>>

\* After the loop: _save_combined_results, and all_posts is returned.
SaveCombined ==
    /\ pc = "collect"
    /\ cursor > Len(collectors)
    /\ feeds_dir' = Append(feeds_dir,
                           CombinedSourcesFile(all_posts, source_stats,
                                               reference_date, now))
    /\ pc' = "collected"
    /\ UNCHANGED <<clockVars, filterVars, analyzerVars, reportVars, cacheVars,
                   data_sources_config, collectors, web, cursor, collected,
                   all_posts, source_stats, run_raised, pipelineVars>>

----------------------------------------------------------------------------
(* Specification SpecCollect: one collect_all_sources run on every         *)
(* configuration, feed, cache and web within the bounds.                   *)

MaxRss == 3

\* published values inside and outside the window of RefT, and none
RssPublished ==
    { NaivePublished(RefT - DayMinutes), NaivePublished(RefT - 10 * DayMinutes),
      EmptyPublished }

RssFeeds ==
    {[i \in 1..Len(pubs) |-> RssEntry(i, pubs[i])] :
        pubs \in SeqsUpTo(RssPublished, MaxRss)}

\* a feed of one recent entry whose summary is longer than the cap
LongSummaryFeed ==
    << [RssEntry(1, NaivePublished(RefT - DayMinutes))
            EXCEPT !.summary = <<Run("s", ContentCap + 1)>>] >>

\* '[곽재원의 Now&Future] AI'
ColumnTitle ==
    <<"[", "gwag_", "jae_", "won_", "ui_", " ", "N", "o", "w", "&", "F", "u", "t",
      "u", "r", "e", "]", " ", "A", "I">>
OtherTitle == <<"A", "I">>

NaverPage(se, pv) ==
    [error |-> FALSE, se_main_container |-> se, post_view |-> pv]
NaverError == [error |-> TRUE, se_main_container |-> <<>>, post_view |-> <<>>]

AjuPage(title, pub) ==
    [error |-> FALSE, title |-> title, published |-> pub,
     content |-> <<Run("c", 1)>>]
AjuError ==
    [error |-> TRUE, title |-> <<>>, published |-> EmptyPublished,
     content |-> <<>>]

AjuUrls == {known_urls[i] : i \in 1..Len(known_urls)} \cup CachedUrlChoices

\* every page of the column, published in the filter year
AjuAllColumns ==
    [u \in AjuUrls |-> AjuPage(ColumnTitle, AwarePublished(-10 * DayMinutes, KstOffset))]

\* the first URL of each list fails, the second is another column, the third
\* is of this year
AjuMixed ==
    [u \in AjuUrls |->
        IF u \in {known_urls[1], "https://www.ajunews.com/view/c2"} THEN AjuError
        ELSE IF u = known_urls[2] THEN AjuPage(OtherTitle, NaivePublished(-10 * DayMinutes))
        ELSE IF u = known_urls[3] THEN AjuPage(ColumnTitle, NaivePublished(DayMinutes))
        ELSE AjuPage(ColumnTitle, NaivePublished(-10 * DayMinutes))]

\* every page is of the column: the second URL of each list gives no date,
\* the third no ISO timestamp, the fourth an empty one, the fifth has no
\* title, the others are of the filter year
AjuDates ==
    [u \in AjuUrls |->
        IF u \in {known_urls[2], "https://www.ajunews.com/view/c2"}
        THEN AjuPage(ColumnTitle, AbsentPublished)
        ELSE IF u = known_urls[3] THEN AjuPage(ColumnTitle, MalformedPublished)
        ELSE IF u = known_urls[4] THEN AjuPage(ColumnTitle, EmptyPublished)
        ELSE IF u = known_urls[5] THEN AjuPage(<<>>, NaivePublished(-10 * DayMinutes))
        ELSE AjuPage(ColumnTitle, NaivePublished(-10 * DayMinutes))]

\* every detail page answers with a short body
WebAllOk ==
    [naver |-> [i \in 1..MaxRss |-> NaverPage(<<Run("b", 1)>>, <<>>)],
     aju |-> AjuAllColumns]

\* every detail request of the blog fails
WebNaverFails == [naver |-> [i \in 1..MaxRss |-> NaverError], aju |-> AjuMixed]

\* the detail request of the first feed entry fails, the others succeed
WebNaverFirstFails ==
    [naver |-> [i \in 1..MaxRss |->
                   IF i = 1 THEN NaverError ELSE NaverPage(<<Run("b", 1)>>, <<>>)],
     aju |-> AjuDates]

\* every detail page holds a body longer than the cap
WebLongBodies ==
    [naver |-> [i \in 1..MaxRss |-> NaverPage(<<>>, <<Run("b", ContentCap + 1)>>)],
     aju |-> AjuMixed]

WebChoices == {WebAllOk, WebNaverFails, WebNaverFirstFails, WebLongBodies}

NaverConfigs ==
    { [enabled |-> e, name |-> "Naver Blog", max_posts |-> 1] : e \in BOOLEAN }
    \cup { [enabled |-> e] : e \in BOOLEAN }

AjuConfigs ==
    { [enabled |-> e, name |-> "Now&Future", max_posts |-> 2] : e \in BOOLEAN }
    \cup { [enabled |-> e, max_posts |-> 1, year_filter |-> DefaultYearFilter] :
             e \in BOOLEAN }

InitCollect ==
    /\ pc = "collect"
    /\ now = NowT
    /\ reference_date = Datetime(RefT)
    /\ days_lookback = 7
    /\ rss_posts \in RssFeeds \cup {LongSummaryFeed}
    /\ recent_posts = <<>>
    /\ AnalyzerIdle
    /\ ReportIdle
    /\ cache_file \in
          { NoCacheFile,
            CacheFile([updated |-> NaivePublished(NowT - 60),
                       urls |-> << "https://www.ajunews.com/view/c1",
                                   "https://www.ajunews.com/view/c2",
                                   "https://www.ajunews.com/view/c1" >>]) }
    /\ url_list = <<>>
    /\ data_sources_config \in
          { [naver_blog |-> n, ajunews_column |-> a] :
                n \in NaverConfigs, a \in AjuConfigs }
    /\ collectors = _initialize_collectors(data_sources_config)
    /\ web \in WebChoices
    /\ cursor = 1
    /\ collected = <<>>
    /\ all_posts = <<>>
    /\ source_stats = <<>>
    /\ feeds_dir = <<>>
    /\ run_raised = FALSE
    /\ PipelineIdle

NextCollect == CollectSource \/ SaveCombined

SpecCollect == InitCollect /\ [][NextCollect]_vars

----------------------------------------------------------------------------
(* Specification SpecAjuRuns: collect_posts of the column collector run    *)
(* up to MaxAjuRuns times on one feeds directory, a minute or a day apart, *)
(* with a cache that is missing, unreadable, stale, or fresh in the first  *)
(* run.                                                                    *)

MaxAjuRuns == 2

AjuRunCaches ==
    { NoCacheFile, UnreadableCacheFile,
      CacheFile([updated |-> NaivePublished(NowT - 60),
                 urls |-> << "https://www.ajunews.com/view/c1",
                             "https://www.ajunews.com/view/c2" >>]),
      CacheFile([updated |-> NaivePublished(NowT - 2 * DayMinutes),
                 urls |-> << "https://www.ajunews.com/view/c1" >>]) }

InitAjuRuns ==
    /\ pc = "aju"
    /\ now = NowT
    /\ reference_date = None
    /\ FilterIdle
    /\ AnalyzerIdle
    /\ ReportIdle
    /\ cache_file \in AjuRunCaches
    /\ url_list = <<>>
    /\ data_sources_config \in
          { [ajunews_column |-> [enabled |-> TRUE, max_posts |-> n]] : n \in 1..2 }
    /\ collectors = <<AJU>>
    /\ web \in { [naver |-> <<>>, aju |-> a] : a \in {AjuAllColumns, AjuMixed, AjuDates} }
    /\ cursor = 0
    /\ collected = <<>>
    /\ all_posts = <<>>
    /\ source_stats = <<>>
    /\ feeds_dir = <<>>
    /\ run_raised = FALSE
    /\ PipelineIdle

\* One call of AjunewsCollector.collect_posts, a minute or a day after the
\* call before: the URL list is loaded, the loop runs, _save_posts writes.
AjuRun ==
    /\ pc = "aju"
    /\ Len(collected) < MaxAjuRuns
    /\ \E raises \in BOOLEAN :
          LET outcome == AjuCollectPosts(SourceConfig(AJU), cache_file, now,
                                         web.aju, raises)
          IN  /\ collected' = Append(collected,
                                     [source |-> AJU, raised |-> outcome.raised,
                                      posts |-> outcome.posts,
                                      trace |-> outcome.trace])
              /\ feeds_dir' = feeds_dir \o outcome.saved
              /\ cache_file' = CacheAfter(cache_file, outcome.saved)
    /\ \E later \in {1, DayMinutes} : now' = now + later
    /\ UNCHANGED <<pc, reference_date, filterVars, analyzerVars, reportVars,
                   url_list, data_sources_config, collectors, web, cursor,
                   all_posts, source_stats, run_raised, pipelineVars>>

NextAjuRuns == AjuRun

SpecAjuRuns == InitAjuRuns /\ [][NextAjuRuns]_vars

----------------------------------------------------------------------------
(* Claims about collect_all_sources                                        *)

\* source_stats[name]; -1 when the dict has no such key
StatOf(stats, name) ==
    IF \E i \in 1..Len(stats) : stats[i].source = name
    THEN stats[CHOOSE i \in 1..Len(stats) : stats[i].source = name].count
    ELSE -1

RECURSIVE SumOfStats(_)
SumOfStats(stats) ==
    IF stats = <<>> THEN 0 ELSE Head(stats).count + SumOfStats(Tail(stats))

\* the configured display name of a source, or the identifier
ClaimedDisplayName(name) ==
    IF "name" \in DOMAIN data_sources_config[name]
    THEN data_sources_config[name].name ELSE name

\* a returned post with its stamps and every other field as returned
ClaimedStamped(p, name) ==
    [k \in DOMAIN p \cup {"data_source", "source_display_name", "source"} |->
        IF k = "data_source" THEN name
        ELSE IF k = "source_display_name" THEN ClaimedDisplayName(name)
        ELSE IF k \in DOMAIN p THEN p[k]
        ELSE ClaimedDisplayName(name)]

\* what the calls logged so far contribute to the aggregate
RECURSIVE ExpectedAggregate(_)
ExpectedAggregate(log) ==
    IF log = <<>> THEN <<>>
    ELSE (IF Head(log).raised THEN <<>>
          ELSE [i \in 1..Len(Head(log).posts) |->
                   ClaimedStamped(Head(log).posts[i], Head(log).source)])
         \o ExpectedAggregate(Tail(log))

\* C2: whichever collectors raise, the run visits every enabled source; a
\* source whose collector raised has source_stats 0 and no post in the
\* aggregate, and every other source contributes exactly the posts its
\* collector returned, stamped and otherwise unchanged, whether sources
\* before or after it failed.
C2_FailingSourcesIsolated ==
    /\ all_posts = ExpectedAggregate(collected)
    /\ \A k \in 1..Len(collected) :
          /\ collected[k].source = collectors[k]
          /\ collected[k].raised => StatOf(source_stats, collected[k].source) = 0
    /\ pc = "collected" => Len(collected) = Len(collectors)

\* the first source returned posts, the second raised, and the run went on
\* to its end with the posts of the first
C2_Witness ==
    /\ pc = "collected"
    /\ Len(collected) = 2
    /\ ~collected[1].raised
    /\ Len(collected[1].posts) = 2
    /\ collected[2].raised
    /\ Len(all_posts) = 2
    /\ all_posts[1].data_source = NAVER

\* the feed entry a collected post of the blog comes from passed the recency
\* filter
AfterRecencyFilter(p) ==
    \E i \in 1..Len(rss_posts) :
        /\ rss_posts[i].link = p.link
        /\ \/ InWindow(rss_posts[i], reference_date, now, days_lookback)
           \/ Unparseable(rss_posts[i])

\* C3: a run never ends with an exception, and at its end total_count is the
\* number of posts of the aggregate and the sum of source_stats, where the
\* stat of a source is the number of posts its collector returned, recency
\* filter applied, and 0 when the collector raised.
C3_RunCompletesCountConsistent ==
    /\ ~run_raised
    /\ pc # "raised"
    /\ pc = "collected" =>
          LET artifact == feeds_dir[Len(feeds_dir)].data IN
          /\ artifact.total_count = Len(all_posts)
          /\ artifact.posts = all_posts
          /\ artifact.source_stats = source_stats
          /\ artifact.total_count = SumOfStats(source_stats)
          /\ Len(source_stats) = Len(collected)
          /\ \A k \in 1..Len(collected) :
                /\ StatOf(source_stats, collected[k].source) =
                      IF collected[k].raised THEN 0 ELSE Len(collected[k].posts)
                /\ collected[k].source = NAVER =>
                      \A i \in 1..Len(collected[k].posts) :
                          AfterRecencyFilter(collected[k].posts[i])

\* the blog lists 3 posts, 2 of them in the window, and the column collector
\* raises: total_count 2, source_stats {naver_blog: 2, ajunews_column: 0}
C3_Witness ==
    /\ pc = "collected"
    /\ Len(rss_posts) = 3
    /\ Cardinality({i \in 1..3 : InWindow(rss_posts[i], reference_date, now,
                                          days_lookback)}) = 2
    /\ feeds_dir[Len(feeds_dir)].data.total_count = 2
    /\ source_stats = << [source |-> NAVER, count |-> 2],
                         [source |-> AJU, count |-> 0] >>

----------------------------------------------------------------------------
(* PostAnalyzer.analyze_posts and categorize_posts (src/scripts/analyzer.py) *)
(*                                                                         *)
(* categorize_posts returns a dict in insertion order: a sequence of       *)
(* [category, posts] entries with distinct categories.                     *)

\* _analyze_single_post raises: a missing key is a KeyError, and title + ' '
\* + content a TypeError when one of them is None
AnalysisRaises(p) ==
    \/ ~({"title", "content"} \subseteq DOMAIN p)
    \/ p.title = NoneText
    \/ p.content = NoneText

\* {**post, 'category': ..., 'summary': ...}
WithAnalysis(p, c, s) == SetKey(SetKey(p, "category", c), "summary", s)

\* the body of the loop of analyze_posts for a post that has its keys: the
\* analysis, or '기타' and the summary alone when the analysis raised
AnalyzeOne(p) ==
    IF AnalysisRaises(p)
    THEN WithAnalysis(p, GITA, _create_simple_summary(p.content))
    ELSE WithAnalysis(p, _classify_category(p), _create_simple_summary(p.content))

\* the loop leaves analyze_posts with a KeyError: post['title'] is read by the
\* log line before the try, post['content'] by the except clause
LoopRaises(p) == ~({"title", "content"} \subseteq DOMAIN p)

analyze_posts(input) ==
    IF \E i \in 1..Len(input) : LoopRaises(input[i])
    THEN [raised |-> TRUE, posts |-> <<>>]
    ELSE [raised |-> FALSE, posts |-> [i \in 1..Len(input) |-> AnalyzeOne(input[i])]]

\* categorized[category] = [post] in place of the append
AddToBucket_Replace(categorized, p) ==
    IF HasCategory(categorized, p.category)
    THEN [i \in 1..Len(categorized) |->
             IF categorized[i].category = p.category
             THEN [category |-> p.category, posts |-> <<p>>]
             ELSE categorized[i]]
    ELSE Append(categorized, [category |-> p.category, posts |-> <<p>>])

\* the body of the loop of categorize_posts
AddToBucket(categorized, p) ==
    IF HasCategory(categorized, p.category)
    THEN [i \in 1..Len(categorized) |->
             IF categorized[i].category = p.category
             THEN [category |-> p.category,
                   posts |-> Append(categorized[i].posts, p)]
             ELSE categorized[i]]
    ELSE Append(categorized, [category |-> p.category, posts |-> <<p>>])

RECURSIVE CategorizeFrom(_, _, _)
CategorizeFrom(analyzed, i, categorized) ==
    IF i > Len(analyzed) THEN categorized
    ELSE CategorizeFrom(analyzed, i + 1, AddToBucket(categorized, analyzed[i]))

categorize_posts(analyzed) == CategorizeFrom(analyzed, 1, <<>>)

\* analyzer.analyze_posts(posts); an exception ends main in sys.exit(1)
AnalyzePosts ==
    /\ pc = "analyze"
    /\ analyzed_posts' = analyze_posts(main_posts)
    /\ pc' = IF analyzed_posts'.raised THEN "exit" ELSE "analyzed"
    /\ UNCHANGED <<clockVars, filterVars, analyzerVars, reportVars, cacheVars,
                   collectVars, main_posts>>

\* analyzer.categorize_posts(analyzed_posts)
CategorizePosts ==
    /\ pc = "analyzed"
    /\ categorized_posts' = categorize_posts(analyzed_posts.posts)
    /\ pc' = "render"
    /\ UNCHANGED <<clockVars, filterVars, analyzerVars, render_runs, reports,
                   output_dir, web_reports_dir, cacheVars, collectVars,
                   pipelineVars>>

----------------------------------------------------------------------------
(* Specification SpecAnalyze: analyze_posts and categorize_posts on every  *)
(* list of posts within the bounds.                                        *)

MaxAnalyzed == 3

\* title and content of the posts: keyword-bearing, without keyword, empty,
\* and None
AnalyzedTexts ==
    { [title |-> Str(<<"A", "i">>), content |-> Str(<<"g", "p", "t", ".">>)],
      [title |-> Str(<<"h", "i">>), content |-> Str(<<"teug_", "heo_">>)],
      [title |-> Str(<<"h", "i">>), content |-> <<>>],
      [title |-> Str(<<"A", "i">>), content |-> NoneText],
      [title |-> NoneText, content |-> Str(<<"A", "i">>)] }

\* a post as a collector returns it
CollectedPost(id, texts) ==
    [title |-> texts.title, link |-> id, published |-> EmptyPublished,
     content |-> texts.content, collected_at |-> NowT]

InitAnalyze ==
    /\ pc = "analyze"
    /\ now = NowT
    /\ reference_date = None
    /\ FilterIdle
    /\ AnalyzerIdle
    /\ ReportIdle
    /\ CacheIdle
    /\ CollectIdle
    /\ main_posts \in {[i \in 1..Len(ts) |-> CollectedPost(i, ts[i])] :
                          ts \in SeqsUpTo(AnalyzedTexts, MaxAnalyzed)}
    /\ analyzed_posts = [raised |-> FALSE, posts |-> <<>>]

NextAnalyze == AnalyzePosts \/ CategorizePosts

SpecAnalyze == InitAnalyze /\ [][NextAnalyze]_vars

----------------------------------------------------------------------------
(* main (src/scripts/main.py): collect, analyze, categorize, render         *)

\* the step after the collection, with the `if not posts: return` left out
AfterCollect_NoGuard(collected_posts) == "analyze"

\* `if not posts: return`: main goes on only with a post in hand
AfterCollect(collected_posts) ==
    IF collected_posts = <<>> THEN "returned" ELSE "analyze"

\* Step 2 of main: NaverBlogCollector(config).collect_posts(reference_date).
\* An exception of the collector ends main in sys.exit(1).
MainCollect ==
    /\ pc = "main"
    /\ \E raises \in BOOLEAN :
          LET outcome == NaverCollectPosts(SourceConfig(NAVER), rss_posts,
                                           reference_date, now, days_lookback,
                                           web.naver, raises)
          IN  /\ main_posts' = outcome.posts
              /\ feeds_dir' = feeds_dir \o outcome.saved
              /\ pc' = IF outcome.raised THEN "exit"
                       ELSE AfterCollect(outcome.posts)
    /\ UNCHANGED <<clockVars, filterVars, analyzerVars, reportVars, cacheVars,
                   data_sources_config, collectors, web, cursor, collected,
                   all_posts, source_stats, run_raised, analyzed_posts>>

----------------------------------------------------------------------------
(* Specification SpecPipeline: one run of main on every feed and web       *)
(* within the bounds.                                                      *)

InitPipeline ==
    /\ pc = "main"
    /\ now = NowT
    /\ reference_date \in {None, Datetime(RefT)}
    /\ days_lookback = 7
    /\ rss_posts \in RssFeeds
    /\ recent_posts = <<>>
    /\ AnalyzerIdle
    /\ categorized_posts = <<>>
    /\ render_runs = 1
    /\ reports = <<>>
    /\ output_dir = <<>>
    /\ web_reports_dir = <<>>
    /\ CacheIdle
    /\ data_sources_config \in
          { [naver_blog |-> [enabled |-> TRUE]],
            [naver_blog |-> [enabled |-> TRUE, max_posts |-> 1]] }
    /\ collectors = <<>>
    /\ web \in {WebAllOk, WebNaverFails}
    /\ cursor = 0
    /\ collected = <<>>
    /\ all_posts = <<>>
    /\ source_stats = <<>>
    /\ feeds_dir = <<>>
    /\ run_raised = FALSE
    /\ PipelineIdle

NextPipeline == MainCollect \/ AnalyzePosts \/ CategorizePosts \/ GenerateReport

SpecPipeline == InitPipeline /\ [][NextPipeline]_vars

----------------------------------------------------------------------------
(* Specification SpecRenderSources: analyze_posts, categorize_posts and    *)
(* generate_report on posts as each of the two collectors returns them.    *)

MaxSourcePosts == 2

\* posts as NaverBlogCollector returns them: of a page that answered and of
\* one that failed, dated and undated
NaverSourcePosts ==
    { _scrape_post_detail(RssEntry(i, pub), [j \in 1..MaxRss |-> page], NowT) :
        i \in 1..2,
        pub \in {NaivePublished(RefT - DayMinutes), EmptyPublished},
        page \in {NaverPage(<<Run("b", 1)>>, <<>>), NaverError} }

\* posts as AjunewsCollector returns them, the title as a str: dated, with a
\* date that is no timestamp, and with an empty date
AjuSourcePosts ==
    { LET q == _scrape_article(u, AjuDates[u], NowT).post
      IN  [q EXCEPT !.title = Str(q.title)] :
        u \in {known_urls[1], known_urls[3], known_urls[4]} }

InitRenderSources ==
    /\ pc = "analyze"
    /\ now = NowT
    /\ reference_date = Datetime(RefT)
    /\ FilterIdle
    /\ AnalyzerIdle
    /\ categorized_posts = <<>>
    /\ render_runs = 1
    /\ reports = <<>>
    /\ output_dir = <<>>
    /\ web_reports_dir = <<>>
    /\ CacheIdle
    /\ CollectIdle
    /\ main_posts \in SeqsUpTo(NaverSourcePosts \cup AjuSourcePosts, MaxSourcePosts)
    /\ analyzed_posts = [raised |-> FALSE, posts |-> <<>>]

NextRenderSources == AnalyzePosts \/ CategorizePosts \/ GenerateReport

SpecRenderSources == InitRenderSources /\ [][NextRenderSources]_vars

\* C11: a run whose collection returned no post ends there: nothing is
\* analyzed, categorized, rendered or written; whenever a post is analyzed
\* or a report rendered or written, the collection step has returned at
\* least one post.
C11_NoPostNoReport ==
    /\ pc = "returned" => main_posts = <<>>
    /\ main_posts = <<>> =>
          /\ analyzed_posts.posts = <<>>
          /\ categorized_posts = <<>>
          /\ reports = <<>>
          /\ output_dir = <<>>
          /\ web_reports_dir = <<>>
          /\ pc \in {"main", "returned", "exit"}

\* the feed lists posts, none of them recent: main has returned after the
\* collection and no report exists
C11_Witness ==
    /\ pc = "returned"
    /\ Len(rss_posts) = 2
    /\ main_posts = <<>>
    /\ feeds_dir # <<>>
    /\ output_dir = <<>>

----------------------------------------------------------------------------
(* Claims about the stamps of the aggregate                                *)

\* the logged call of the collector of a source returned q, and p is q with
\* stamps
ReturnedBy(p, name) ==
    \E k \in 1..Len(collected) :
        /\ collected[k].source = name
        /\ ~collected[k].raised
        /\ \E j \in 1..Len(collected[k].posts) :
              LET q == collected[k].posts[j] IN
              \A f \in DOMAIN q : f \in DOMAIN p /\ p[f] = q[f]

\* C12: in every state of a run every post of the aggregate carries the
\* identifier of the collector that returned it as data_source and the
\* configured name of that source, or the identifier when none is
\* configured, as source_display_name: no post is in the aggregate unstamped.
C12_AggregateStamped ==
    \A i \in 1..Len(all_posts) :
        LET p == all_posts[i] IN
        /\ {"data_source", "source_display_name"} \subseteq DOMAIN p
        /\ \E k \in 1..Len(collectors) : collectors[k] = p.data_source
        /\ ReturnedBy(p, p.data_source)
        /\ p.source_display_name = ClaimedDisplayName(p.data_source)

\* posts of a source with a configured name and of one without
C12_Witness ==
    /\ pc = "collected"
    /\ Len(all_posts) >= 2
    /\ all_posts[1].data_source = NAVER
    /\ all_posts[1].source_display_name = "Naver Blog"
    /\ all_posts[Len(all_posts)].data_source = AJU
    /\ all_posts[Len(all_posts)].source_display_name = AJU

----------------------------------------------------------------------------
(* Claims about analyze_posts and categorize_posts                         *)

\* the places (bucket, position) of the dict that hold the post with a link
PlacesOf(d, id) ==
    {<<b, j>> \in (1..Len(d)) \X (1..MaxAnalyzed + 1) :
        j <= Len(d[b].posts) /\ d[b].posts[j].link = id}

AnalysisFails(p) == p.title = NoneText \/ p.content = NoneText

----------------------------------------------------------------------------
(* Claim about the copy for the web viewer                                 *)

\* the sort of a category compares an aware with a naive date
SomeSortRaises(d) ==
    \E i \in 1..Len(d) : d[i].posts # <<>> /\ SortRaises(d[i].posts)

\* C14: a generate_report call that got its content returns the primary
\* path, and the primary file holds the content, whether or not the copy for
\* the viewer went through; when it went through, the viewer's directory
\* holds a file of the same name with the same content.
C14_CopyFailureNotFatal ==
    reports # <<>> =>
        LET r == reports[Len(reports)] IN
        /\ r.raised => SomeSortRaises(categorized_posts)
        /\ ~r.raised =>
              /\ r.path.dir = "output_dir"
              /\ r.path.name \in DOMAIN output_dir
              /\ output_dir[r.path.name] = r.content
              /\ r.content # <<>>
              /\ r.copied =>
                    /\ r.path.name \in DOMAIN web_reports_dir
                    /\ web_reports_dir[r.path.name] = r.content

\* the copy of the first render went through, the copy of the second failed:
\* the path is returned, the primary file holds the second content and the
\* viewer's file the first
C14_Witness ==
    /\ Len(reports) = 2
    /\ ~reports[2].raised
    /\ reports[1].copied
    /\ ~reports[2].copied
    /\ reports[2].path.dir = "output_dir"
    /\ output_dir[reports[2].path.name] = reports[2].content
    /\ reference_date.given
    /\ web_reports_dir[reports[2].path.name] = reports[1].content

----------------------------------------------------------------------------
(* Claims about the collectors' candidates                                 *)

\* the candidates of the blog collector: the feed entries its recency filter
\* kept, in feed order
RecentCandidates ==
    _filter_recent_posts(rss_posts, reference_date, now, days_lookback)

\* the configured number of candidates of the blog, 20 by default
ClaimedNaverMax ==
    IF "max_posts" \in DOMAIN data_sources_config[NAVER]
    THEN data_sources_config[NAVER].max_posts
    ELSE 20

\* the returns of the blog collector logged so far
NaverReturns ==
    {k \in 1..Len(collected) :
        collected[k].source = NAVER /\ ~collected[k].raised}

\* C16 as stated: a candidate whose detail request failed is absent from the
\* result of the blog collector.
C16_FailedCandidateSkipped ==
    \A k \in NaverReturns :
        \A i \in 1..Len(collected[k].posts) :
            ~web.naver[collected[k].posts[i].link].error

\* C16 as the code has it: the blog collector returns one post per candidate,
\* in candidate order; a candidate whose detail request failed is returned
\* with its feed fields and the feed summary as content, every other one with
\* the content of its page, and the failure reaches no caller.
C16_FailedCandidateKeptFromFeed ==
    \A k \in NaverReturns :
        LET posts == collected[k].posts
            cands == RecentCandidates
        IN  /\ Len(posts) = Min(Len(cands), ClaimedNaverMax)
            /\ \A i \in 1..Len(posts) :
                  /\ posts[i].link = cands[i].link
                  /\ posts[i].title = cands[i].title
                  /\ posts[i].published = cands[i].published
                  /\ IF web.naver[cands[i].link].error
                     THEN posts[i].content = cands[i].summary
                     ELSE posts[i].content # cands[i].summary

\* the request of the first candidate failed and the one of the second went
\* through: both are returned, the first with the feed summary
C16_Witness ==
    \E k \in NaverReturns :
        LET posts == collected[k].posts IN
        /\ Len(posts) >= 2
        /\ web.naver[posts[1].link].error
        /\ posts[1].content = Str(<<"s">>)
        /\ ~web.naver[posts[2].link].error
        /\ posts[2].content = Str(<<"b">>)

\* the returns of the column collector logged so far
AjuReturns ==
    {k \in 1..Len(collected) : collected[k].source = AJU /\ ~collected[k].raised}

ClaimedAjuMax ==
    IF "max_posts" \in DOMAIN data_sources_config[AJU]
    THEN data_sources_config[AJU].max_posts ELSE 10

ClaimedYearFilter ==
    IF "year_filter" \in DOMAIN data_sources_config[AJU]
    THEN data_sources_config[AJU].year_filter ELSE 2025

\* the URLs the column collector may request: the first 2 * max_posts of its
\* list
AjuCandidates ==
    LET urls == _load_or_generate_url_list(cache_file, now)
    IN  SubSeq(urls, 1, Min(Len(urls), 2 * ClaimedAjuMax))

\* (a), (b) and (c) of the claim on the page of a URL
ClaimedAccepted(u) ==
    LET page == web.aju[u] IN
    /\ ~page.error
    /\ page.title # <<>>
    /\ _is_now_future_column(page.title)
    /\ \/ page.published.kind # "date"
       \/ YearOf(page.published.wall) = ClaimedYearFilter

HasUrl(posts, u) == \E i \in 1..Len(posts) : posts[i].url = u

\* the candidate at place j was requested: the loop did not end before it
Requested(posts, cands, j) ==
    \/ Len(posts) < ClaimedAjuMax
    \/ \E n \in (j + 1)..Len(cands) : HasUrl(posts, cands[n])

\* C17: the column collector returns a requested candidate iff its title was
\* extracted, names the column, and its publication year is the filter year
\* or its publication date could not be parsed.
C17_AcceptedIffColumnOfFilterYear ==
    \A k \in AjuReturns :
        LET posts == collected[k].posts
            cands == AjuCandidates
        IN  /\ \A i \in 1..Len(posts) :
                  InSeq(posts[i].url, cands) /\ ClaimedAccepted(posts[i].url)
            /\ \A j \in 1..Len(cands) :
                  (Requested(posts, cands, j) /\ ClaimedAccepted(cands[j]))
                      => HasUrl(posts, cands[j])

\* the address of a post: 'url' of a column post, 'link' of a blog post
UrlOf(p) == IF "url" \in DOMAIN p THEN p.url ELSE p.link

NoSharedUrl(posts) ==
    \A i, j \in 1..Len(posts) :
        (i # j /\ DOMAIN posts[i] = DOMAIN posts[j])
            => UrlOf(posts[i]) # UrlOf(posts[j])

\* C18: no two posts of a collector's result and no two posts of the
\* aggregate share a url, repeated URLs in the cached list included.
C18_UrlsUnique ==
    /\ \A k \in 1..Len(collected) : NoSharedUrl(collected[k].posts)
    /\ NoSharedUrl(all_posts)

----------------------------------------------------------------------------
(* Claims about the fields of a post after its collector returned it       *)

\* the posts the collectors returned so far, in the order of the calls
RECURSIVE ReturnedPosts(_)
ReturnedPosts(log) ==
    IF log = <<>> THEN <<>>
    ELSE (IF Head(log).raised THEN <<>> ELSE Head(log).posts)
         \o ReturnedPosts(Tail(log))

\* p is q with no field changed and fields added from `added` alone
KeptWithAdded(p, q, added) ==
    /\ DOMAIN q \subseteq DOMAIN p
    /\ \A f \in DOMAIN q : p[f] = q[f]
    /\ (DOMAIN p \ DOMAIN q) \subseteq added

\* C19 as stated: a post of the aggregate is the post its collector returned,
\* with no field changed or added but category and summary.
C19_OnlyCategoryAndSummaryAdded ==
    LET returned == ReturnedPosts(collected) IN
    /\ Len(all_posts) = Len(returned)
    /\ \A i \in 1..Len(all_posts) :
          KeptWithAdded(all_posts[i], returned[i], {"category", "summary"})

\* every post of the aggregate keeps the value of every field its collector
\* set; the orchestrator adds data_source and source_display_name to it, and
\* source when the collector set none
StampsAddedOnly ==
    LET returned == ReturnedPosts(collected) IN
    /\ Len(all_posts) = Len(returned)
    /\ \A i \in 1..Len(all_posts) :
          /\ KeptWithAdded(all_posts[i], returned[i],
                           {"data_source", "source_display_name", "source"})
          /\ {"data_source", "source_display_name", "source"}
                \subseteq DOMAIN all_posts[i]

\* a post that is in the aggregate stays in its place as it is
AggregateKept ==
    /\ Len(all_posts') >= Len(all_posts)
    /\ \A i \in 1..Len(all_posts) : all_posts'[i] = all_posts[i]

\* C19 as the code has it: the orchestrator changes no field a collector set
\* and adds data_source, source_display_name and, where absent, source; no
\* field of a post of the aggregate is overwritten afterwards.
C19_CollectorFieldsKept == [][StampsAddedOnly' /\ AggregateKept]_vars

\* the aggregate holds a blog post, whose source was added, and a column
\* post, which keeps the source its collector set
C19_Witness ==
    /\ pc = "collected"
    /\ LET returned == ReturnedPosts(collected) IN
       \E i, j \in 1..Len(all_posts) :
          /\ "source" \notin DOMAIN returned[i]
          /\ all_posts[i].source = "Naver Blog"
          /\ "source" \in DOMAIN returned[j]
          /\ all_posts[j].source = AjuSource
          /\ all_posts[j].source_display_name # AjuSource

\* analyze_posts adds category and summary to the posts main collected and
\* changes no other field, and the buckets of categorize_posts hold the
\* analyzed posts as they are
AnalysisAddsOnly ==
    /\ pc \in {"analyzed", "render"} =>
          /\ Len(analyzed_posts.posts) = Len(main_posts)
          /\ \A i \in 1..Len(main_posts) :
                /\ KeptWithAdded(analyzed_posts.posts[i], main_posts[i],
                                 {"category", "summary"})
                /\ {"category", "summary"} \subseteq DOMAIN analyzed_posts.posts[i]
    /\ pc = "render" =>
          \A b \in 1..Len(categorized_posts) :
              \A j \in 1..Len(categorized_posts[b].posts) :
                  InSeq(categorized_posts[b].posts[j], analyzed_posts.posts)

----------------------------------------------------------------------------
(* Claim about the order of the results                                    *)

UrlsOf(posts) == [i \in 1..Len(posts) |-> UrlOf(posts[i])]

\* both posts are of the same collector and have the same address
SameAddress(p, q) ==
    /\ ("url" \in DOMAIN p) = ("url" \in DOMAIN q)
    /\ UrlOf(p) = UrlOf(q)

\* the links of the blog's candidates, in feed order
CandidateLinks == [i \in 1..Len(RecentCandidates) |-> RecentCandidates[i].link]

\* C20: the result of a collector lists its accepted candidates in the order
\* of the candidate list; the collectors are called in the order blog,
\* column, and the aggregate is the results of the calls one after the
\* other, so that no post of the column precedes a post of the blog.
C20_FetchOrderThenSourceOrder ==
    /\ \A k \in NaverReturns : IsSubSeq(UrlsOf(collected[k].posts), CandidateLinks)
    /\ \A k \in AjuReturns : IsSubSeq(UrlsOf(collected[k].posts), AjuCandidates)
    /\ IsSubSeq(collectors, <<NAVER, AJU>>)
    /\ \A k \in 1..Len(collected) : collected[k].source = collectors[k]
    /\ LET returned == ReturnedPosts(collected) IN
       /\ Len(all_posts) = Len(returned)
       /\ \A i \in 1..Len(all_posts) : SameAddress(all_posts[i], returned[i])
    /\ \A i, j \in 1..Len(all_posts) :
          (all_posts[i].data_source = NAVER /\ all_posts[j].data_source = AJU)
              => i < j

\* two posts of the blog in feed order, then two posts of the column, the
\* first and the third URL of the list, a rejected candidate between them
C20_Witness ==
    /\ pc = "collected"
    /\ Len(all_posts) = 4
    /\ all_posts[1].data_source = NAVER
    /\ all_posts[2].data_source = NAVER
    /\ all_posts[1].link < all_posts[2].link
    /\ all_posts[3].data_source = AJU
    /\ all_posts[3].url = known_urls[1]
    /\ all_posts[4].url = known_urls[3]

----------------------------------------------------------------------------
(* Claims about the item loops of the collectors                           *)

\* C21: in the item loop of a collector every request is followed by the
\* delay before the next request is made, whether the attempt succeeded,
\* was rejected or raised.
C21_DelayAfterEveryAttempt ==
    \A k \in 1..Len(collected) :
        LET trace == collected[k].trace IN
        \A i \in 1..(Len(trace) - 1) :
            trace[i].op = "get" => trace[i + 1].op = "sleep"

\* the places of the requests in a trace
Requests(trace) == {i \in 1..Len(trace) : trace[i].op = "get"}

\* C22: the column collector returns at most max_posts posts, and when it
\* returns max_posts the request of the last of them is the last thing its
\* loop did: no candidate after it is requested.
C22_StopsAtMaxPosts ==
    \A k \in AjuReturns :
        LET posts == collected[k].posts
            trace == collected[k].trace
        IN  /\ Len(posts) <= ClaimedAjuMax
            /\ Cardinality(Requests(trace)) <= Len(AjuCandidates)
            /\ Len(posts) = ClaimedAjuMax =>
                  /\ trace[Len(trace)].op = "get"
                  /\ trace[Len(trace)].url = posts[Len(posts)].url

\* max_posts is 2, the first two of four candidates were accepted, and the
\* other two were not requested
C22_Witness ==
    \E k \in AjuReturns :
        /\ ClaimedAjuMax = 2
        /\ Len(collected[k].posts) = 2
        /\ Len(AjuCandidates) = 4
        /\ Cardinality(Requests(collected[k].trace)) = 2

\* C23: every post the blog collector returns has a content of at most 5000
\* characters, whether it comes from a container of the page or from the
\* feed summary, and also when the detail request failed.
C23_ContentCapped ==
    \A k \in NaverReturns :
        \A i \in 1..Len(collected[k].posts) :
            TextLen(collected[k].posts[i].content) <= 5000

----------------------------------------------------------------------------
(* Claims about the candidate sentences of the summary                     *)

\* the pieces of the split that the claim keeps: trimmed, of 10 characters
\* or more
RECURSIVE AtLeastTen(_)
AtLeastTen(pieces) ==
    IF pieces = <<>> THEN <<>>
    ELSE LET s == Strip(Head(pieces)) IN
         (IF TextLen(s) >= 10 THEN <<s>> ELSE <<>>) \o AtLeastTen(Tail(pieces))

\* the summary made of the candidates q of a content that is not empty
SummaryOf(q, content) ==
    IF q = <<>> \/ TextLen(q[1]) > 300 THEN Fallback(content)
    ELSE IF Len(q) >= 2 /\ TextLen(q[1]) + TextLen(q[2]) <= 300
    THEN TwoSentences(q[1], q[2])
    ELSE OneSentence(q[1])

\* C24: the candidates of the summary are exactly the trimmed sentences of
\* 10 characters or more: the summary is the one made of these.
C24_TenCharactersSurvive ==
    (pc = "summarized" /\ post.content # <<>>) =>
        summary = SummaryOf(AtLeastTen(re_split(post.content)), post.content)

\* the first 200 characters of the raw content followed by '...'
RawFallback(content) == Canon(Take(Canon(content), 200) \o Str(<<".", ".", ".">>))

\* the number of sentences the accumulation selects from the surviving
\* sentences q: none when the first exceeds 300 characters, two when the
\* first two fit together, else one
Selected(q) ==
    IF q = <<>> \/ TextLen(q[1]) > 300 THEN 0
    ELSE IF Len(q) >= 2 /\ TextLen(q[1]) + TextLen(q[2]) <= 300 THEN 2
    ELSE 1

\* the first n sentences of q joined with '. ', with a trailing period
RECURSIVE JoinedPrefix(_, _)
JoinedPrefix(q, n) ==
    IF n <= 1 THEN Canon(q[1] \o Str(<<".">>))
    ELSE Canon(q[1] \o Str(<<".", " ">>) \o JoinedPrefix(Tail(q), n - 1))

\* C25 as stated: when no sentence survives or none is selected the summary
\* is the first 200 characters of the raw content followed by '...', for
\* every content, the empty one included; otherwise it is the selected
\* prefix of the surviving sentences joined with '. ' and a trailing period.
C25_FallbackAsStated ==
    pc = "summarized" =>
        LET q == Sentences(post.content) IN
        IF Selected(q) = 0 THEN summary = RawFallback(post.content)
        ELSE summary = JoinedPrefix(q, Selected(q))

\* C25 as the code has it: the empty content gives the fixed message; when
\* no sentence survives or none is selected the summary is the first 200
\* characters of the content, trimmed of surrounding whitespace, followed by
\* '...'; otherwise it is the selected prefix of the surviving sentences
\* joined with '. ' and a trailing period.
C25_FallbackTrimmedOrMessage ==
    pc = "summarized" =>
        LET q == Sentences(post.content) IN
        IF post.content = <<>> THEN summary = NoContentMessage
        ELSE IF Selected(q) = 0
        THEN summary = Canon(Strip(Take(Canon(post.content), 200))
                             \o Str(<<".", ".", ".">>))
        ELSE /\ summary = JoinedPrefix(q, Selected(q))
             /\ Selected(q) <= 2
             /\ Selected(q) <= Len(q)

\* a content that begins or ends its first 200 characters with whitespace and
\* whose only sentence exceeds 300 characters: nothing is selected and the
\* summary is the trimmed truncation, shorter than the raw one
C25_Witness ==
    /\ pc = "summarized"
    /\ Len(Sentences(post.content)) >= 1
    /\ Selected(Sentences(post.content)) = 0
    /\ summary # RawFallback(post.content)
    /\ TextLen(summary) < 203

----------------------------------------------------------------------------
(* Claim about the URL cache file                                          *)

\* C26: no step of a collect run of the column collector writes, refreshes
\* or deletes the URL cache file: its existence, updated timestamp and urls
\* are after the step what they were before, and no artifact is written
\* under its name.
C26_CacheNeverWritten ==
    [][/\ cache_file' = cache_file
       /\ \A i \in 1..Len(feeds_dir') : feeds_dir'[i].file # "ajunews_url_cache"]_vars

\* two runs a day apart on a cache that was fresh in the first and stale in
\* the second: the first requested the cached URLs, the second the static
\* list, both saved their posts, and the cache file is the one of the start
C26_Witness ==
    /\ Len(collected) = 2
    /\ cache_file.exists
    /\ cache_file.readable
    /\ cache_file.data.updated = NaivePublished(NowT - 60)
    /\ collected[1].trace[1].url = "https://www.ajunews.com/view/c1"
    /\ collected[2].trace[1].url = known_urls[1]
    /\ Len(feeds_dir) = 2

----------------------------------------------------------------------------
(* Claim about the sections of the report                                  *)

\* the category whose header is the last one before line n
HeaderBefore(lines, n) ==
    lines[CHOOSE j \in 1..n :
            /\ lines[j].line = "category"
            /\ \A m \in (j + 1)..n : lines[m].line # "category"].category

\* the lines from n on are the section of post p printed as the i-th of the
\* category c: ordinal and title, formatted date, quoted summary, link
IsSectionOf(lines, n, c, i, p) ==
    /\ n + 7 <= Len(lines)
    /\ lines[n].line = "post_title"
    /\ HeaderBefore(lines, n) = c
    /\ lines[n].n = i
    /\ lines[n].text = p.title
    /\ lines[n + 2].line = "published"
    /\ lines[n + 2].date = _format_date(PublishedOf(p))
    /\ lines[n + 5].line = "summary_quote"
    /\ lines[n + 5].text = p.summary
    /\ lines[n + 7].line = "link"
    /\ lines[n + 7].n = UrlOf(p)

PostTitleLines(lines) == {n \in 1..Len(lines) : lines[n].line = "post_title"}

\* C27: the render of the analyzed posts of either collector does not fail,
\* and the report holds one section per post: under each category the
\* ordinals 1..n, each section with the title, formatted date, quoted
\* summary and link of a post of the category, and every post with its
\* section.
C27_OneSectionPerPost ==
    \A k \in 1..Len(reports) :
        /\ ~reports[k].raised
        /\ LET lines == reports[k].content
               d == categorized_posts
           IN  /\ Cardinality(PostTitleLines(lines)) = TotalPosts(d)
               /\ \A b \in 1..Len(d) :
                     /\ \A j \in 1..Len(d[b].posts) :
                           \E n \in PostTitleLines(lines) :
                               \E i \in 1..Len(d[b].posts) :
                                   IsSectionOf(lines, n, d[b].category, i,
                                               d[b].posts[j])
                     /\ \A i \in 1..Len(d[b].posts) :
                           Cardinality({n \in PostTitleLines(lines) :
                                           /\ HeaderBefore(lines, n) = d[b].category
                                           /\ lines[n].n = i}) = 1

\* the posts of the categorized input that carry a 'link'
AllHaveLink(d) ==
    \A b \in 1..Len(d) : \A j \in 1..Len(d[b].posts) : "link" \in DOMAIN d[b].posts[j]

----------------------------------------------------------------------------
(* Claim about the combined artifact                                       *)

\* the places of feeds_dir that hold a combined artifact
CombinedWrites ==
    {i \in 1..Len(feeds_dir) : feeds_dir[i].file = "combined_sources"}

\* C28: while a source is still to be called no combined artifact exists;
\* at the end of the run there is exactly one, written after every enabled
\* source returned or raised, also when every source raised and the
\* aggregate is empty, and its filename timestamp is the reference date
\* when one is given.
C28_CombinedSavedOnceAtEnd ==
    /\ pc = "collect" => CombinedWrites = {}
    /\ pc = "collected" =>
          /\ CombinedWrites = {Len(feeds_dir)}
          /\ Len(collected) = Len(collectors)
          /\ reference_date.given =>
                feeds_dir[Len(feeds_dir)].timestamp = reference_date.wall

\* both sources were called and both raised: the artifact of the run is
\* there, with no post, named after the reference date
C28_Witness ==
    /\ pc = "collected"
    /\ Len(collected) = 2
    /\ collected[1].raised
    /\ collected[2].raised
    /\ all_posts = <<>>
    /\ feeds_dir[Len(feeds_dir)].file = "combined_sources"
    /\ feeds_dir[Len(feeds_dir)].data.total_count = 0
    /\ feeds_dir[Len(feeds_dir)].timestamp = RefT

----------------------------------------------------------------------------
(* Claims about the reference date and the scan of the column collector    *)

\* the posts of the aggregate that come from the blog
FromNaver(p) == "data_source" \in DOMAIN p /\ p.data_source = NAVER

\* C29: every post of the aggregate, whichever collector returned it, is
\* published inside [reference_date - days_lookback, reference_date] or has
\* a publication string that is no date.
C29_AggregatePassedRecencyFilter ==
    \A i \in 1..Len(all_posts) :
        \/ InWindow(all_posts[i], reference_date, now, days_lookback)
        \/ Unparseable(all_posts[i])

\* the same for the posts of the blog alone
NaverPostsInWindow ==
    \A i \in 1..Len(all_posts) :
        FromNaver(all_posts[i]) =>
            \/ InWindow(all_posts[i], reference_date, now, days_lookback)
            \/ Unparseable(all_posts[i])

\* a post of the column is in the aggregate with a date outside the window
ColumnPostOutsideWindow ==
    \E i \in 1..Len(all_posts) :
        /\ all_posts[i].data_source = AJU
        /\ all_posts[i].published.kind = "date"
        /\ ~InWindow(all_posts[i], reference_date, now, days_lookback)

\* the URLs of the requests of a trace, in the order they were made
RequestedUrls(trace) == SelectSeq(trace, LAMBDA e : e.op = "get")

\* C30: the requests of a run of the column collector are those of the
\* first places of its URL list, one for each, in order, and never of a
\* place after 2 * max_posts; every post it returns is of a requested place;
\* and the run ends with the max_posts-th accepted post or with the last of
\* the first 2 * max_posts places, whichever comes first.
C30_ScansFirstTwiceMaxPosts ==
    \A k \in 1..Len(collected) :
        collected[k].source = AJU =>
            LET got == RequestedUrls(collected[k].trace)
                posts == collected[k].posts
                urls == _load_or_generate_url_list(cache_file, now)
            IN  /\ Len(got) <= Len(urls)
                /\ Len(got) <= 2 * ClaimedAjuMax
                /\ \A j \in 1..Len(got) : got[j].url = urls[j]
                /\ \A i \in 1..Len(posts) :
                      \E j \in 1..Len(got) : got[j].url = posts[i].url
                /\ ~collected[k].raised =>
                      \/ Len(posts) = ClaimedAjuMax
                      \/ Len(got) = Min(Len(urls), 2 * ClaimedAjuMax)

\* max_posts is 2 and the first four places gave one post: the run ended
\* there, and the fifth place, whose page would have been accepted, was
\* neither requested nor returned
C30_Witness ==
    \E k \in AjuReturns :
        LET got == RequestedUrls(collected[k].trace)
            urls == _load_or_generate_url_list(cache_file, now)
        IN  /\ ClaimedAjuMax = 2
            /\ Len(collected[k].posts) = 1
            /\ Len(got) = 4
            /\ Len(urls) > 4
            /\ ClaimedAccepted(urls[5])
            /\ \A j \in 1..Len(got) : got[j].url # urls[5]
            /\ ~HasUrl(collected[k].posts, urls[5])

====
